---- MODULE Spec2Model ----
(***************************************************************************)
(* ZMODEM sender (write) and receiver (read) of src/src/lib.rs, with the   *)
(* byte codec underneath them: escape tables, CRC-16/XMODEM, CRC-32/       *)
(* ISO-HDLC, header and subpacket framing.  Bytes are naturals 0..255,     *)
(* byte strings are sequences, a channel is the sequence of bytes in       *)
(* flight.                                                                 *)
(***************************************************************************)
EXTENDS Integers, Sequences, FiniteSets, TLC

VARIABLES
    file,            \* the sender's source: the bytes of the file to send
    size,            \* the sender's size argument: None or Some(n)
    s2r,             \* bytes in flight from the sender to the receiver
    r2s,             \* bytes in flight from the receiver to the sender
    failed,          \* TRUE once the channel's reads and writes return errors
    spc,             \* write: "start", "loop", "done" (Ok), "err"; "off": absent
    stage,           \* write's Stage: "Waiting", "Ready", "Receiving"
    sframe,          \* kind of the frame write parsed in its last step, or -1
    szfin,           \* TRUE once write has parsed a ZFIN frame
    szeof,           \* TRUE once write has written a ZEOF header whose count
                     \* is the length of the file
    swr,             \* bytes write wrote in its last step
    spass,           \* flips at each pass of write's loop that a failed read
                     \* turns back at read_zpad
    rpc,             \* read: "start", "loop", "zdata", "done" (Ok), "err",
                     \* "panic"; "off": absent
    current_file,    \* state.0: None or Some(name)
    bytes_received,  \* state.1, a u32
    entry,           \* state.1 when read was called
    renc,            \* encoding handed to read_zdata
    sink,            \* bytes written to the sink by writes that succeeded
    rwr,             \* bytes read wrote in its last step
    rframe,          \* kind of the frame read parsed in the last pass of its
                     \* loop, or -1
    rpass,           \* flips at each pass of read's loop that a failed read
                     \* turns back at read_zpad
    ioerr,           \* TRUE once a channel or sink operation returned an error
    fed,             \* number of items an arbitrary peer has put on the wire
    cin,             \* codec round trip: the value written
    cout             \* codec round trip: None, or Some(what was read back)

vars == <<file, size, s2r, r2s, failed, spc, stage, sframe, szfin, szeof, swr,
          spass,
          rpc, current_file, bytes_received, entry, renc, sink, rwr, rframe,
          rpass,
          ioerr, fed, cin, cout>>

(***************************************************************************)
(* Constants of lib.rs                                                     *)
(***************************************************************************)
ZPAD == 42
ZDLE == 24
XON == 17

ZBIN == 65
ZHEX == 66
ZBIN32 == 67
ENCODINGS == {ZBIN, ZHEX, ZBIN32}

ZRQINIT == 0
ZRINIT == 1
ZACK == 3
ZFILE == 4
ZSKIP == 5
ZNAK == 6
ZFIN == 8
ZRPOS == 9
ZDATA == 10
ZEOF == 11
ZSTDERR == 19
\* Frame::try_from accepts the twenty kinds ZRQINIT .. ZSTDERR
FRAMES == ZRQINIT .. ZSTDERR

ZCRCE == 104
ZCRCG == 105
ZCRCQ == 106
ZCRCW == 107
PACKETS == {ZCRCE, ZCRCG, ZCRCQ, ZCRCW}

\* Zrinit::CANCRY | Zrinit::CANOVIO | Zrinit::CANFC32 = 0x08 | 0x02 | 0x20
ZrinitCaps == 42

SUBPACKET_PER_ACK == 10
\* SUBPACKET_SIZE is 1024 in lib.rs; the model scales it down so that files of
\* a few bytes span several subpackets and more than one window.
SUBPACKET_SIZE == 2
\* Capacity of RxBuffer (ArrayVec<[u8; 2048]>); a push beyond it panics.
RxCapacity == 2048
\* Capacity of TxBuffer (ArrayVec<[u8; 1024]>), the largest subpacket payload.
TxCapacity == 1024
\* Longest file name read_zfile accepts.
MaxNameLen == 255

Byte == 0 .. 255
\* Option: None, or Some(x)
None == <<>>
Some(x) == <<x>>

\* Bind(e, LAMBDA v : body) is body with v standing for the value of e, which
\* is computed once (let v = e; body).
Bind(e, F(_)) == CHOOSE r \in {F(v) : v \in {e}} : TRUE

\* Indexed from 1: ZDLE_TABLE[b + 1] is the source's ZDLE_TABLE[b]
ZDLE_TABLE == <<
    0, 1, 2, 3, 4, 5, 6, 7, 8, 9, 10, 11, 12, 77, 14, 15,
    80, 81, 18, 83, 20, 21, 22, 23, 88, 25, 26, 27, 28, 29, 30, 31,
    32, 33, 34, 35, 36, 37, 38, 39, 40, 41, 42, 43, 44, 45, 46, 47,
    48, 49, 50, 51, 52, 53, 54, 55, 56, 57, 58, 59, 60, 61, 62, 63,
    64, 65, 66, 67, 68, 69, 70, 71, 72, 73, 74, 75, 76, 77, 78, 79,
    80, 81, 82, 83, 84, 85, 86, 87, 88, 89, 90, 91, 92, 93, 94, 95,
    96, 97, 98, 99, 100, 101, 102, 103, 104, 105, 106, 107, 108, 109, 110, 111,
    112, 113, 114, 115, 116, 117, 118, 119, 120, 121, 122, 123, 124, 125, 126, 108,
    128, 129, 130, 131, 132, 133, 134, 135, 136, 137, 138, 139, 140, 205, 142, 143,
    208, 209, 146, 211, 148, 149, 150, 151, 152, 153, 154, 155, 156, 157, 158, 159,
    160, 161, 162, 163, 164, 165, 166, 167, 168, 169, 170, 171, 172, 173, 174, 175,
    176, 177, 178, 179, 180, 181, 182, 183, 184, 185, 186, 187, 188, 189, 190, 191,
    192, 193, 194, 195, 196, 197, 198, 199, 200, 201, 202, 203, 204, 205, 206, 207,
    208, 209, 210, 211, 212, 213, 214, 215, 216, 217, 218, 219, 220, 221, 222, 223,
    224, 225, 226, 227, 228, 229, 230, 231, 232, 233, 234, 235, 236, 237, 238, 239,
    240, 241, 242, 243, 244, 245, 246, 247, 248, 249, 250, 251, 252, 253, 254, 109 >>

UNZDLE_TABLE == <<
    0, 1, 2, 3, 4, 5, 6, 7, 8, 9, 10, 11, 12, 13, 14, 15,
    16, 17, 18, 19, 20, 21, 22, 23, 24, 25, 26, 27, 28, 29, 30, 31,
    32, 33, 34, 35, 36, 37, 38, 39, 40, 41, 42, 43, 44, 45, 46, 47,
    48, 49, 50, 51, 52, 53, 54, 55, 56, 57, 58, 59, 60, 61, 62, 63,
    0, 1, 2, 3, 4, 5, 6, 7, 8, 9, 10, 11, 12, 13, 14, 15,
    16, 17, 18, 19, 20, 21, 22, 23, 24, 25, 26, 27, 28, 29, 30, 31,
    96, 97, 98, 99, 100, 101, 102, 103, 104, 105, 106, 107, 127, 255, 110, 111,
    112, 113, 114, 115, 116, 117, 118, 119, 120, 121, 122, 123, 124, 125, 126, 127,
    128, 129, 130, 131, 132, 133, 134, 135, 136, 137, 138, 139, 140, 141, 142, 143,
    144, 145, 146, 147, 148, 149, 150, 151, 152, 153, 154, 155, 156, 157, 158, 159,
    160, 161, 162, 163, 164, 165, 166, 167, 168, 169, 170, 171, 172, 173, 174, 175,
    176, 177, 178, 179, 180, 181, 182, 183, 184, 185, 186, 187, 188, 189, 190, 191,
    128, 129, 130, 131, 132, 133, 134, 135, 136, 137, 138, 139, 140, 141, 142, 143,
    144, 145, 146, 147, 148, 149, 150, 151, 152, 153, 154, 155, 156, 157, 158, 159,
    224, 225, 226, 227, 228, 229, 230, 231, 232, 233, 234, 235, 236, 237, 238, 239,
    240, 241, 242, 243, 244, 245, 246, 247, 248, 249, 250, 251, 252, 253, 254, 255 >>

(***************************************************************************)
(* Sequence helpers (Rust slices: &s[..n], &s[n..])                        *)
(***************************************************************************)
Take(s, n) == SubSeq(s, 1, n)
Drop(s, n) == SubSeq(s, n + 1, Len(s))

(***************************************************************************)
(* u32 values: a pair <<high 16 bits, low 16 bits>>                        *)
(***************************************************************************)
U32(n) == <<n \div 65536, n % 65536>>

\* u32::to_le_bytes
to_le_bytes(u) == <<u[2] % 256, u[2] \div 256, u[1] % 256, u[1] \div 256>>

\* u32::from_le_bytes
from_le_bytes(b) == <<b[3] + 256 * b[4], b[1] + 256 * b[2]>>

\* a < b on u32
Less32(a, b) == a[1] < b[1] \/ (a[1] = b[1] /\ a[2] < b[2])

\* a + n on u32, for n < 65536: v is the sum modulo 2^32, overflow tells
\* whether the sum left the u32 range
Add32(a, n) ==
    [v |-> <<(a[1] + ((a[2] + n) \div 65536)) % 65536, (a[2] + n) % 65536>>,
     overflow |-> a[1] + ((a[2] + n) \div 65536) >= 65536]

(***************************************************************************)
(* Bitwise exclusive or on bytes and 16-bit words                          *)
(***************************************************************************)
RECURSIVE XorBits(_, _, _)
XorBits(a, b, n) ==
    IF n = 0 THEN 0
    ELSE (((a % 2) + (b % 2)) % 2) + 2 * XorBits(a \div 2, b \div 2, n - 1)

XorTable == [a \in 0 .. 15 |-> [b \in 0 .. 15 |-> XorBits(a, b, 4)]]

Xor8(a, b) ==
    XorTable[a \div 16][b \div 16] * 16 + XorTable[a % 16][b % 16]

Xor16(a, b) ==
    Xor8(a \div 256, b \div 256) * 256 + Xor8(a % 256, b % 256)

(***************************************************************************)
(* CRC_16_XMODEM: poly 0x1021, init 0, not reflected, xorout 0             *)
(***************************************************************************)
RECURSIVE Crc16Shift(_, _)
Crc16Shift(c, n) ==
    IF n = 0 THEN c
    ELSE Bind(IF c >= 32768 THEN Xor16((c * 2) % 65536, 4129) ELSE c * 2,
              LAMBDA d : Crc16Shift(d, n - 1))

Crc16Table == [i \in Byte |-> Crc16Shift(i * 256, 8)]

Crc16Update(crc, b) ==
    Bind(Crc16Table[Xor8(crc \div 256, b)],
         LAMBDA t : Xor16((crc % 256) * 256, t))

\* The digest crc updated with data[lo], ..., data[hi] in this order; the
\* range is taken in two halves, the first before the second
RECURSIVE Crc16Fold(_, _, _, _)
Crc16Fold(crc, data, lo, hi) ==
    IF lo > hi THEN crc
    ELSE IF lo = hi THEN Crc16Update(crc, data[lo])
    ELSE Bind((lo + hi) \div 2, LAMBDA mid :
         Bind(Crc16Fold(crc, data, lo, mid),
              LAMBDA c : Crc16Fold(c, data, mid + 1, hi)))

\* CRC16.checksum(data).to_be_bytes()
Crc16Bytes(data) ==
    Bind(data, LAMBDA d :
    Bind(Crc16Fold(0, d, 1, Len(d)), LAMBDA c : <<c \div 256, c % 256>>))

(***************************************************************************)
(* CRC_32_ISO_HDLC: poly 0x04C11DB7 reflected (0xEDB88320), init and       *)
(* xorout 0xFFFFFFFF.  The register is kept as its four little-endian      *)
(* bytes; a table entry is computed on two 16-bit halves.                  *)
(***************************************************************************)
RECURSIVE Crc32Shift(_, _, _)
Crc32Shift(hi, lo, n) ==
    IF n = 0 THEN <<hi, lo>>
    ELSE Bind(<<hi \div 2, (lo \div 2) + (hi % 2) * 32768, lo % 2>>,
              LAMBDA s : IF s[3] = 1
                         THEN Bind(<<Xor16(s[1], 60856), Xor16(s[2], 33568)>>,
                                   LAMBDA x : Crc32Shift(x[1], x[2], n - 1))
                         ELSE Crc32Shift(s[1], s[2], n - 1))

Crc32Table ==
    [i \in Byte |->
        Bind(Crc32Shift(0, i, 8),
             LAMBDA p : to_le_bytes(p))]

Crc32Update(crc, b) ==
    Bind(Crc32Table[Xor8(crc[1], b)],
         LAMBDA t : <<Xor8(t[1], crc[2]), Xor8(t[2], crc[3]),
                      Xor8(t[3], crc[4]), t[4]>>)

\* The register crc updated with data[lo], ..., data[hi] in this order
RECURSIVE Crc32Fold(_, _, _, _)
Crc32Fold(crc, data, lo, hi) ==
    IF lo > hi THEN crc
    ELSE IF lo = hi THEN Crc32Update(crc, data[lo])
    ELSE Bind((lo + hi) \div 2, LAMBDA mid :
         Bind(Crc32Fold(crc, data, lo, mid),
              LAMBDA c : Crc32Fold(c, data, mid + 1, hi)))

\* CRC32.checksum(data).to_le_bytes()
Crc32Bytes(data) ==
    Bind(data, LAMBDA d :
    Bind(Crc32Fold(<<255, 255, 255, 255>>, d, 1, Len(d)),
         LAMBDA c : <<Xor8(c[1], 255), Xor8(c[2], 255),
                      Xor8(c[3], 255), Xor8(c[4], 255)>>))

make_crc(data, encoding) ==
    IF encoding = ZBIN32 THEN Crc32Bytes(data) ELSE Crc16Bytes(data)

check_crc(data, crc, encoding) == crc = make_crc(data, encoding)

(***************************************************************************)
(* Escaping and hex                                                        *)
(***************************************************************************)
escape_byte_ff_as_7f(b) ==
    IF b = 255 THEN <<ZDLE, 108>>
    ELSE IF ZDLE_TABLE[b + 1] # b THEN <<ZDLE, ZDLE_TABLE[b + 1]>> ELSE <<b>>

escape_byte_no_cr(b) ==
    IF b \in {13, 141} THEN <<b>>
    ELSE IF ZDLE_TABLE[b + 1] # b THEN <<ZDLE, ZDLE_TABLE[b + 1]>> ELSE <<b>>

\* One pass of the loop of escape_mem
escape_byte(b) ==
    Bind(ZDLE_TABLE[b + 1],
         LAMBDA b_e : IF b_e # b THEN <<ZDLE, b_e>> ELSE <<b_e>>)

\* The passes of the loop of escape_mem for src[lo], ..., src[hi] in this
\* order
RECURSIVE escape_range(_, _, _)
escape_range(src, lo, hi) ==
    IF lo > hi THEN <<>>
    ELSE IF lo = hi THEN escape_byte(src[lo])
    ELSE Bind((lo + hi) \div 2, LAMBDA mid :
             escape_range(src, lo, mid) \o escape_range(src, mid + 1, hi))

escape_none(src) == src

\* escape_mem: the bytes put in dst[..i]
escape_mem(src) == Bind(src, LAMBDA s : escape_range(s, 1, Len(s)))

\* hex::encode writes lower-case digits
HexDigit(d) == IF d < 10 THEN 48 + d ELSE 87 + d

hex_encode(data) ==
    Bind(data, LAMBDA d :
        [i \in 1 .. 2 * Len(d) |->
            IF i % 2 = 1 THEN HexDigit(d[(i + 1) \div 2] \div 16)
            ELSE HexDigit(d[i \div 2] % 16)])

\* hex's val(): 0-9, a-f and A-F are digits, anything else is an error (-1 here)
HexVal(c) ==
    IF c >= 48 /\ c <= 57 THEN c - 48
    ELSE IF c >= 97 /\ c <= 102 THEN c - 87
    ELSE IF c >= 65 /\ c <= 70 THEN c - 55
    ELSE -1

\* hex::decode_in_slice returns Ok
HexOk(s) ==
    /\ Len(s) % 2 = 0
    /\ \A i \in 1 .. Len(s) : HexVal(s[i]) >= 0

\* hex::decode_in_slice followed by truncate(len / 2)
hex_decode(s) ==
    [i \in 1 .. (Len(s) \div 2) |-> HexVal(s[2 * i - 1]) * 16 + HexVal(s[2 * i])]

(***************************************************************************)
(* Reading from the port.  A read returns a record: st is "ok", "err" (the *)
(* read returned an error) or "block" (no byte has arrived yet and the     *)
(* caller waits); v is the value read; rest is what stays in flight.       *)
(* f tells whether the channel has failed.                                 *)
(***************************************************************************)
Res(st, v, rest) == [st |-> st, v |-> v, rest |-> rest]

read_byte(inp, f) ==
    IF f THEN Res("err", 0, inp)
    ELSE IF inp = <<>> THEN Res("block", 0, inp)
    ELSE Res("ok", Head(inp), Tail(inp))

read_byte_unescaped(inp, f) ==
    Bind(read_byte(inp, f), LAMBDA b :
        IF b.st # "ok" \/ b.v # ZDLE THEN b
        ELSE Bind(read_byte(b.rest, f), LAMBDA c :
                 IF c.st # "ok" THEN c
                 ELSE Res("ok", UNZDLE_TABLE[c.v + 1], c.rest)))

\* n calls of read_byte_unescaped, pushed onto acc; stops at the first failure
RECURSIVE read_unescaped(_, _, _, _)
read_unescaped(inp, f, n, acc) ==
    IF n = 0 THEN Res("ok", acc, inp)
    ELSE Bind(read_byte_unescaped(inp, f), LAMBDA b :
             IF b.st # "ok" THEN Res(b.st, acc, b.rest)
             ELSE Bind(Append(acc, b.v),
                       LAMBDA a : read_unescaped(b.rest, f, n - 1, a)))

\* The number of calls of read_byte_unescaped that take exactly bytes: a
\* ZDLE and the byte after it go in one call
RECURSIVE escaped_units(_)
escaped_units(bytes) ==
    IF bytes = <<>> THEN 0
    ELSE IF Head(bytes) = ZDLE /\ Len(bytes) >= 2
    THEN 1 + escaped_units(Drop(bytes, 2))
    ELSE 1 + escaped_units(Tail(bytes))

read_zpad_one_pad(inp, f) ==
    Bind(read_byte(inp, f), LAMBDA b1 :
        IF b1.st # "ok" THEN b1
        ELSE IF b1.v # ZPAD THEN Res("err", 0, b1.rest)
        ELSE Bind(read_byte(b1.rest, f), LAMBDA b :
            IF b.st # "ok" THEN b
            ELSE IF b.v = ZDLE THEN Res("ok", 0, b.rest)
            ELSE Res("err", 0, b.rest)))

read_zpad(inp, f) ==
    Bind(read_byte(inp, f), LAMBDA b1 :
        IF b1.st # "ok" THEN b1
        ELSE IF b1.v # ZPAD THEN Res("err", 0, b1.rest)
        ELSE Bind(read_byte(b1.rest, f), LAMBDA b2 :
            IF b2.st # "ok" THEN b2
            ELSE Bind(IF b2.v = ZPAD THEN read_byte(b2.rest, f) ELSE b2,
                      LAMBDA b : IF b.st # "ok" THEN b
                                 ELSE IF b.v = ZDLE THEN Res("ok", 0, b.rest)
                                 ELSE Res("err", 0, b.rest))))

(***************************************************************************)
(* Headers                                                                 *)
(***************************************************************************)
Header(encoding, kind, flags) ==
    [encoding |-> encoding, kind |-> kind, flags |-> flags]

\* Header::count
count(h) == from_le_bytes(h.flags)

\* Header::with_count
with_count(h, c) == Header(h.encoding, h.kind, to_le_bytes(c))

unescaped_size_zbin32_short(encoding) ==
    IF encoding = ZBIN THEN 6 + 2
    ELSE IF encoding = ZBIN32 THEN 6 + 2
    ELSE (6 + 2) * 2 - 1

unescaped_size_hex_whole(encoding) ==
    IF encoding = ZBIN THEN 6 + 2
    ELSE IF encoding = ZBIN32 THEN 6 + 4
    ELSE (6 + 2) * 2

\* Header::unescaped_size; size_of::<Header>() is 6
unescaped_size(encoding) ==
    IF encoding = ZBIN THEN 6 + 2
    ELSE IF encoding = ZBIN32 THEN 6 + 4
    ELSE (6 + 2) * 2 - 1

HeaderBytes_xon_always(hdr) ==
    Bind(hdr, LAMBDA h :
    Bind(<<ZPAD>> \o (IF h.encoding = ZHEX THEN <<ZPAD>> ELSE <<>>)
             \o <<ZDLE, h.encoding, h.kind>> \o h.flags, LAMBDA out1 :
    Bind(out1 \o make_crc(IF h.encoding = ZHEX THEN Drop(out1, 4)
                          ELSE Drop(out1, 3), h.encoding), LAMBDA out2 :
    Bind(IF h.encoding = ZHEX THEN Take(out2, 4) \o hex_encode(Drop(out2, 4))
         ELSE out2, LAMBDA out3 :
        Take(out3, 3) \o escape_mem(Drop(out3, 3))
            \o (IF h.encoding # ZHEX THEN <<>> ELSE <<13, 10, XON>>)))))

\* Header::write: the bytes handed to port.write_all
HeaderBytes(hdr) ==
    Bind(hdr, LAMBDA h :
    Bind(<<ZPAD>> \o (IF h.encoding = ZHEX THEN <<ZPAD>> ELSE <<>>)
             \o <<ZDLE, h.encoding, h.kind>> \o h.flags, LAMBDA out1 :
    Bind(out1 \o make_crc(IF h.encoding = ZHEX THEN Drop(out1, 4)
                          ELSE Drop(out1, 3), h.encoding), LAMBDA out2 :
    Bind(IF h.encoding = ZHEX THEN Take(out2, 4) \o hex_encode(Drop(out2, 4))
         ELSE out2, LAMBDA out3 :
        Take(out3, 3) \o escape_mem(Drop(out3, 3))
            \o (IF h.encoding # ZHEX THEN <<>>
                ELSE IF h.kind # ZACK /\ h.kind # ZFIN THEN <<13, 10, XON>>
                ELSE <<13, 10>>)))))

\* Header::read; v is the header when st = "ok"
HeaderRead(inp, f) ==
    Bind(read_byte(inp, f), LAMBDA e :
        IF e.st # "ok" THEN e
        ELSE IF e.v \notin ENCODINGS THEN Res("err", 0, e.rest)
        ELSE Bind(read_unescaped(e.rest, f, unescaped_size(e.v) - 1, <<>>),
                  LAMBDA r :
            IF r.st # "ok" THEN Res(r.st, 0, r.rest)
            ELSE IF e.v = ZHEX /\ ~HexOk(r.v) THEN Res("err", 0, r.rest)
            ELSE Bind(IF e.v = ZHEX THEN hex_decode(r.v) ELSE r.v, LAMBDA out :
                IF ~check_crc(Take(out, 5), Drop(out, 5), e.v)
                THEN Res("err", 0, r.rest)
                ELSE IF out[1] \notin FRAMES THEN Res("err", 0, r.rest)
                ELSE Res("ok", Header(e.v, out[1], SubSeq(out, 2, 5)), r.rest))))

(***************************************************************************)
(* Subpackets                                                              *)
(***************************************************************************)
\* write_subpacket for ZBIN and ZBIN32 (ZHEX is unimplemented!() there): the
\* bytes of its three write_all calls
SubpacketBytes(encoding, kind, data) ==
    Bind(data, LAMBDA d :
        escape_mem(d) \o <<ZDLE, kind>>
            \o escape_mem(IF encoding = ZBIN32 THEN Crc32Bytes(d \o <<kind>>)
                          ELSE Crc16Bytes(d \o <<kind>>)))

\* write_subpacket as a whole, on a port that takes every write (portok) or
\* refuses every write: the escaped payload is written first; then ZBIN and
\* ZBIN32 go on to the terminator and the CRC, and ZHEX reaches
\* unimplemented!(), which panics
write_subpacket(encoding, kind, data, portok) ==
    IF ~portok THEN [st |-> "err", out |-> <<>>]
    ELSE IF encoding = ZHEX THEN [st |-> "panic", out |-> escape_mem(data)]
    ELSE [st |-> "ok", out |-> SubpacketBytes(encoding, kind, data)]

\* One pass of the loop of read_subpacket with buf read so far: st is "more"
\* when the loop goes on and "ok" at the break; v is the buffer
read_subpacket_pass(inp, f, buf) ==
    Bind(read_byte(inp, f), LAMBDA b :
        IF b.st # "ok" THEN Res(b.st, buf, b.rest)
        ELSE IF b.v # ZDLE
        THEN IF Len(buf) >= RxCapacity THEN Res("panic", buf, b.rest)
             ELSE Res("more", Append(buf, b.v), b.rest)
        ELSE Bind(read_byte(b.rest, f), LAMBDA c :
            IF c.st # "ok" THEN Res(c.st, buf, c.rest)
            ELSE IF Len(buf) >= RxCapacity THEN Res("panic", buf, c.rest)
            ELSE IF c.v \in PACKETS THEN Res("ok", Append(buf, c.v), c.rest)
            ELSE Res("more", Append(buf, UNZDLE_TABLE[c.v + 1]), c.rest)))

\* Up to n passes of the loop from s, the first half of them before the rest
RECURSIVE read_subpacket_passes(_, _, _)
read_subpacket_passes(s, f, n) ==
    IF n <= 1 THEN read_subpacket_pass(s.rest, f, s.v)
    ELSE Bind(read_subpacket_passes(s, f, n \div 2), LAMBDA t :
             IF t.st # "more" THEN t
             ELSE read_subpacket_passes(t, f, n - (n \div 2)))

\* The loop of read_subpacket: v is the buffer, ending in the ZCRC byte.  A
\* pass takes at least one byte, so Len(inp) + 1 passes reach the break, an
\* error or the end of what has arrived.
read_subpacket_loop(inp, f) ==
    Bind(Res("more", <<>>, inp), LAMBDA s :
        read_subpacket_passes(s, f, Len(inp) + 1))

\* read_subpacket: v is <<kind, payload>> when st = "ok"
read_subpacket(inp, f, encoding) ==
    Bind(read_subpacket_loop(inp, f), LAMBDA l :
        IF l.st # "ok" THEN Res(l.st, <<>>, l.rest)
        ELSE Bind(read_unescaped(l.rest, f, IF encoding = ZBIN32 THEN 4 ELSE 2,
                                 <<>>), LAMBDA c :
            IF c.st # "ok" THEN Res(c.st, <<>>, c.rest)
            ELSE IF ~check_crc(l.v, c.v, encoding) THEN Res("err", <<>>, c.rest)
            ELSE Res("ok", <<l.v[Len(l.v)], Take(l.v, Len(l.v) - 1)>>, c.rest)))

(***************************************************************************)
(* Sender: write and write_zdata                                           *)
(***************************************************************************)
ZACK_HEADER == Header(ZHEX, ZACK, <<0, 0, 0, 0>>)
ZDATA_HEADER == Header(ZBIN32, ZDATA, <<0, 0, 0, 0>>)
ZEOF_HEADER == Header(ZBIN32, ZEOF, <<0, 0, 0, 0>>)
ZFIN_HEADER == Header(ZHEX, ZFIN, <<0, 0, 0, 0>>)
ZNAK_HEADER == Header(ZHEX, ZNAK, <<0, 0, 0, 0>>)
ZRPOS_HEADER == Header(ZHEX, ZRPOS, <<0, 0, 0, 0>>)
ZRQINIT_HEADER == Header(ZHEX, ZRQINIT, <<0, 0, 0, 0>>)
\* "OO".as_bytes()
OO == <<79, 79>>

\* The name the tests send: "test"
FILE_NAME == <<116, 101, 115, 116>>

\* u32::to_string().as_bytes(), for a size below 2^31
RECURSIVE to_string(_)
to_string(n) ==
    IF n < 10 THEN <<48 + n>> ELSE to_string(n \div 10) \o <<48 + (n % 10)>>

\* Option::unwrap_or
unwrap_or(opt, default) == IF opt = None THEN default ELSE opt[1]

\* Header::write_zfile
write_zfile(name, sz) ==
    HeaderBytes(Header(ZBIN32, ZFILE, <<0, 0, 0, 0>>))
        \o SubpacketBytes(ZBIN32, ZCRCW, name \o <<0>> \o to_string(sz) \o <<0>>)

seek_next(fl, offset) ==
    IF offset[1] = 0 /\ offset[2] + 1 <= Len(fl) THEN offset[2] + 1 ELSE Len(fl)

\* Reader::seek: the cursor, as far as the next read can tell (a cursor at or
\* past the end reads nothing; the files of the model are shorter than 2^16)
seek(fl, offset) ==
    IF offset[1] = 0 /\ offset[2] <= Len(fl) THEN offset[2] ELSE Len(fl)

\* Reader::read on a cursor at pos with a buffer of SUBPACKET_SIZE bytes
file_read(fl, pos) ==
    IF pos >= Len(fl) THEN <<>>
    ELSE SubSeq(fl, pos + 1,
                IF pos + SUBPACKET_SIZE <= Len(fl) THEN pos + SUBPACKET_SIZE
                ELSE Len(fl))

\* The for loop of write_zdata from iteration i on, with the closing ZCRCW;
\* data is the chunk read last and pos the cursor after it.
RECURSIVE write_zdata_loop(_, _, _, _)
write_zdata_loop(fl, pos, data, i) ==
    IF i >= SUBPACKET_PER_ACK
    THEN SubpacketBytes(ZBIN32, ZCRCW, data)
    ELSE Bind(<<file_read(fl, pos), pos>>, LAMBDA n :
             SubpacketBytes(ZBIN32, ZCRCG, data)
                 \o (IF Len(n[1]) < SUBPACKET_SIZE
                     THEN SubpacketBytes(ZBIN32, ZCRCW, n[1])
                     ELSE write_zdata_loop(fl, n[2] + Len(n[1]), n[1], i + 1)))

write_zdata_gap(fl, header) ==
    Bind(seek(fl, count(header)), LAMBDA offset :
    Bind(file_read(fl, offset), LAMBDA data :
        IF Len(data) = 0
        THEN HeaderBytes(with_count(ZEOF_HEADER, count(header)))
        ELSE HeaderBytes(with_count(ZDATA_HEADER, count(header)))
                 \o write_zdata_loop(fl, offset + Len(data) + 1, data, 1)))

write_zdata_eof_at_end(fl, header) ==
    Bind(seek(fl, count(header)), LAMBDA offset :
    Bind(file_read(fl, offset), LAMBDA data :
        IF Len(data) = 0
        THEN HeaderBytes(with_count(ZEOF_HEADER, U32(offset)))
        ELSE HeaderBytes(with_count(ZDATA_HEADER, count(header)))
                 \o write_zdata_loop(fl, offset + Len(data), data, 1)))

\* write_zdata: the bytes written
write_zdata(fl, header) ==
    Bind(seek(fl, count(header)), LAMBDA offset :
    Bind(file_read(fl, offset), LAMBDA data :
        IF Len(data) = 0
        THEN HeaderBytes(with_count(ZEOF_HEADER, count(header)))
        ELSE HeaderBytes(with_count(ZDATA_HEADER, count(header)))
                 \o write_zdata_loop(fl, offset + Len(data), data, 1)))

\* The outcome of one pass of the loop of write.  st: "block" (waits for
\* bytes), "cont", "done" (break, then Ok) or "err"; rest: what stays in
\* flight; out: the bytes written; kind: the kind of the frame parsed, or -1.
Step(st, rest, out, stg, kind) ==
    [st |-> st, rest |-> rest, out |-> out, stage |-> stg, kind |-> kind]

write_ZRINIT_no_fin(rest, stg, sz) ==
    IF stg = "Waiting"
    THEN Step("cont", rest,
              write_zfile(FILE_NAME, unwrap_or(sz, 0)),
              "Ready", ZRINIT)
    ELSE Step("cont", rest, <<>>, stg, ZRINIT)

write_ZRINIT_fin_when_ready(rest, stg, sz) ==
    IF stg = "Waiting"
    THEN Step("cont", rest,
              write_zfile(FILE_NAME, unwrap_or(sz, 0)),
              "Ready", ZRINIT)
    ELSE Step("cont", rest, HeaderBytes(ZFIN_HEADER), stg, ZRINIT)

write_ZRINIT_ready_resends(rest, stg, sz) ==
    IF stg # "Receiving"
    THEN Step("cont", rest,
              write_zfile(FILE_NAME, unwrap_or(sz, 0)),
              "Ready", ZRINIT)
    ELSE Step("cont", rest, HeaderBytes(ZFIN_HEADER), stg, ZRINIT)

\* The arm Frame::ZRINIT of write
write_ZRINIT(rest, stg, sz) ==
    IF stg = "Waiting"
    THEN Step("cont", rest,
              write_zfile(FILE_NAME, unwrap_or(sz, 0)),
              "Ready", ZRINIT)
    ELSE IF stg = "Ready" THEN Step("cont", rest, <<>>, stg, ZRINIT)
    ELSE Step("cont", rest, HeaderBytes(ZFIN_HEADER), stg, ZRINIT)

write_ZRPOS_ZACK_any_stage(h, rest, stg, fl) ==
    Step("cont", rest, write_zdata(fl, h), "Receiving", h.kind)

write_ZRPOS_ZACK_twice(h, rest, stg, fl) ==
    IF stg = "Waiting"
    THEN Step("cont", rest, HeaderBytes(ZRQINIT_HEADER), stg, h.kind)
    ELSE Step("cont", rest, write_zdata(fl, h) \o write_zdata(fl, h),
              "Receiving", h.kind)

\* The arm Frame::ZRPOS | Frame::ZACK of write
write_ZRPOS_ZACK(h, rest, stg, fl) ==
    IF stg = "Waiting"
    THEN Step("cont", rest, HeaderBytes(ZRQINIT_HEADER), stg, h.kind)
    ELSE Step("cont", rest, write_zdata(fl, h), "Receiving", h.kind)

write_other_waiting_silent(h, rest, stg) ==
    IF stg = "Waiting" THEN Step("cont", rest, <<>>, stg, h.kind)
    ELSE Step("done", rest, OO, stg, h.kind)

write_other_any_stage(h, rest, stg) ==
    Step("done", rest, OO, stg, h.kind)

\* The arm _ of write
write_other(h, rest, stg) ==
    IF stg = "Waiting"
    THEN Step("cont", rest, HeaderBytes(ZRQINIT_HEADER), stg, h.kind)
    ELSE Step("done", rest, OO, stg, h.kind)

\* What write does with a parsed frame: match frame.kind()
write_frame(h, rest, stg, fl, sz) ==
    IF h.kind = ZRINIT THEN write_ZRINIT(rest, stg, sz)
    ELSE IF h.kind = ZRPOS \/ h.kind = ZACK THEN write_ZRPOS_ZACK(h, rest, stg, fl)
    ELSE write_other(h, rest, stg)

\* One pass of the loop of write.  A channel that has failed fails the first
\* read of the pass, so what follows read_zpad runs on a working channel.
write_iter(inp, f, stg, fl, sz) ==
    Bind(read_zpad(inp, f), LAMBDA zp :
        IF zp.st = "block" THEN Step("block", inp, <<>>, stg, -1)
        ELSE IF zp.st = "err" THEN Step("cont", zp.rest, <<>>, stg, -1)
        ELSE Bind(HeaderRead(zp.rest, f), LAMBDA hr :
            IF hr.st = "block" THEN Step("block", inp, <<>>, stg, -1)
            ELSE IF hr.st = "err"
            THEN Step("cont", hr.rest, HeaderBytes(ZNAK_HEADER), stg, -1)
            ELSE write_frame(hr.v, hr.rest, stg, fl, sz)))

\* What the loops of write and read find at the head of inp: st is "ok" with
\* the header in v, "bad" when Header::read fails after the preamble, "nopad"
\* when read_zpad fails, "block" when more bytes are needed
head_frame(inp) ==
    Bind(read_zpad(inp, FALSE), LAMBDA zp :
        IF zp.st = "block" THEN Res("block", 0, inp)
        ELSE IF zp.st = "err" THEN Res("nopad", 0, zp.rest)
        ELSE Bind(HeaderRead(zp.rest, FALSE), LAMBDA hr :
            IF hr.st = "block" THEN Res("block", 0, inp)
            ELSE IF hr.st = "err" THEN Res("bad", 0, hr.rest)
            ELSE hr))

(***************************************************************************)
(* Receiver: read, Header::read_zfile and read_zdata                       *)
(***************************************************************************)
\* The header of Header::write_zrinit(port, ZHEX, CANCRY | CANOVIO | CANFC32, 0)
ZRINIT_HEADER == Header(ZHEX, ZRINIT, <<0, 0, 0, ZrinitCaps>>)

\* NullString read from a cursor on buf: the bytes before the first NUL, or
\* all of them when there is none
NullString(buf) ==
    IF \A i \in 1 .. Len(buf) : buf[i] # 0 THEN buf
    ELSE Take(buf, (CHOOSE i \in 1 .. Len(buf) :
                       buf[i] = 0 /\ \A j \in 1 .. i - 1 : buf[j] # 0) - 1)

\* The outcome of one pass of the loop of read.  st: "block", "cont", "zdata"
\* (read_zdata is entered), "done" (break, then Ok), "err" (read returns Err)
\* or "panic"; file: the new state.0; enc: the encoding for read_zdata.
RStep(st, rest, out, cf, enc) ==
    [st |-> st, rest |-> rest, out |-> out, file |-> cf, enc |-> enc]

\* state.0 = frame.read_zfile(port)?
read_zfile(h, rest, cf) ==
    Bind(read_subpacket(rest, FALSE, h.encoding), LAMBDA sp :
        IF sp.st = "block" THEN RStep("block", rest, <<>>, cf, 0)
        ELSE IF sp.st = "panic" THEN RStep("panic", sp.rest, <<>>, cf, 0)
        ELSE IF sp.st = "err"
        THEN RStep("cont", sp.rest, HeaderBytes(ZNAK_HEADER), None, 0)
        ELSE Bind(NullString(sp.v[2]), LAMBDA file_name :
            IF Len(file_name) = 0 \/ Len(file_name) > MaxNameLen
            THEN RStep("err", sp.rest,
                       HeaderBytes(with_count(ZRPOS_HEADER, U32(0))), cf, 0)
            ELSE RStep("cont", sp.rest,
                       HeaderBytes(with_count(ZRPOS_HEADER, U32(0))),
                       Some(file_name), 0)))

read_frame_any_offset(h, rest, cf, br) ==
    IF h.kind = ZFILE
    THEN IF cf = None \/ br = U32(0)
         THEN IF br # U32(0) THEN RStep("panic", rest, <<>>, cf, 0)
              ELSE read_zfile(h, rest, cf)
         ELSE RStep("cont", rest, <<>>, cf, 0)
    ELSE IF h.kind = ZDATA
    THEN IF cf = None THEN RStep("cont", rest, HeaderBytes(ZRINIT_HEADER), cf, 0)
         ELSE RStep("zdata", rest, <<>>, cf, h.encoding)
    ELSE IF h.kind = ZEOF /\ cf # None
    THEN IF count(h) # br THEN RStep("cont", rest, <<>>, cf, 0)
         ELSE RStep("cont", rest, HeaderBytes(ZRINIT_HEADER), cf, 0)
    ELSE IF h.kind = ZFIN /\ cf # None
    THEN RStep("done", rest, HeaderBytes(ZFIN_HEADER), cf, 0)
    ELSE IF cf = None THEN RStep("cont", rest, HeaderBytes(ZRINIT_HEADER), cf, 0)
    ELSE RStep("cont", rest, <<>>, cf, 0)

read_frame_eof_any_offset(h, rest, cf, br) ==
    IF h.kind = ZFILE
    THEN IF cf = None \/ br = U32(0)
         THEN IF br # U32(0) THEN RStep("panic", rest, <<>>, cf, 0)
              ELSE read_zfile(h, rest, cf)
         ELSE RStep("cont", rest, <<>>, cf, 0)
    ELSE IF h.kind = ZDATA
    THEN IF cf = None THEN RStep("cont", rest, HeaderBytes(ZRINIT_HEADER), cf, 0)
         ELSE IF count(h) # br
         THEN RStep("cont", rest, HeaderBytes(with_count(ZRPOS_HEADER, br)), cf, 0)
         ELSE RStep("zdata", rest, <<>>, cf, h.encoding)
    ELSE IF h.kind = ZEOF /\ cf # None
    THEN RStep("cont", rest, HeaderBytes(ZRINIT_HEADER), cf, 0)
    ELSE IF h.kind = ZFIN /\ cf # None
    THEN RStep("done", rest, HeaderBytes(ZFIN_HEADER), cf, 0)
    ELSE IF cf = None THEN RStep("cont", rest, HeaderBytes(ZRINIT_HEADER), cf, 0)
    ELSE RStep("cont", rest, <<>>, cf, 0)

read_frame_fin_any_state(h, rest, cf, br) ==
    IF h.kind = ZFILE
    THEN IF cf = None \/ br = U32(0)
         THEN IF br # U32(0) THEN RStep("panic", rest, <<>>, cf, 0)
              ELSE read_zfile(h, rest, cf)
         ELSE RStep("cont", rest, <<>>, cf, 0)
    ELSE IF h.kind = ZDATA
    THEN IF cf = None THEN RStep("cont", rest, HeaderBytes(ZRINIT_HEADER), cf, 0)
         ELSE IF count(h) # br
         THEN RStep("cont", rest, HeaderBytes(with_count(ZRPOS_HEADER, br)), cf, 0)
         ELSE RStep("zdata", rest, <<>>, cf, h.encoding)
    ELSE IF h.kind = ZEOF /\ cf # None
    THEN IF count(h) # br THEN RStep("cont", rest, <<>>, cf, 0)
         ELSE RStep("cont", rest, HeaderBytes(ZRINIT_HEADER), cf, 0)
    ELSE IF h.kind = ZFIN
    THEN RStep("done", rest, HeaderBytes(ZFIN_HEADER), cf, 0)
    ELSE IF cf = None THEN RStep("cont", rest, HeaderBytes(ZRINIT_HEADER), cf, 0)
    ELSE RStep("cont", rest, <<>>, cf, 0)

read_frame_silent_without_file(h, rest, cf, br) ==
    IF h.kind = ZFILE
    THEN IF cf = None \/ br = U32(0)
         THEN IF br # U32(0) THEN RStep("panic", rest, <<>>, cf, 0)
              ELSE read_zfile(h, rest, cf)
         ELSE RStep("cont", rest, <<>>, cf, 0)
    ELSE IF h.kind = ZDATA
    THEN IF cf = None THEN RStep("cont", rest, HeaderBytes(ZRINIT_HEADER), cf, 0)
         ELSE IF count(h) # br
         THEN RStep("cont", rest, HeaderBytes(with_count(ZRPOS_HEADER, br)), cf, 0)
         ELSE RStep("zdata", rest, <<>>, cf, h.encoding)
    ELSE IF h.kind = ZEOF /\ cf # None
    THEN IF count(h) # br THEN RStep("cont", rest, <<>>, cf, 0)
         ELSE RStep("cont", rest, HeaderBytes(ZRINIT_HEADER), cf, 0)
    ELSE IF h.kind = ZFIN /\ cf # None
    THEN RStep("done", rest, HeaderBytes(ZFIN_HEADER), cf, 0)
    ELSE RStep("cont", rest, <<>>, cf, 0)

read_frame_nak_with_file(h, rest, cf, br) ==
    IF h.kind = ZFILE
    THEN IF cf = None \/ br = U32(0)
         THEN IF br # U32(0) THEN RStep("panic", rest, <<>>, cf, 0)
              ELSE read_zfile(h, rest, cf)
         ELSE RStep("cont", rest, <<>>, cf, 0)
    ELSE IF h.kind = ZDATA
    THEN IF cf = None THEN RStep("cont", rest, HeaderBytes(ZRINIT_HEADER), cf, 0)
         ELSE IF count(h) # br
         THEN RStep("cont", rest, HeaderBytes(with_count(ZRPOS_HEADER, br)), cf, 0)
         ELSE RStep("zdata", rest, <<>>, cf, h.encoding)
    ELSE IF h.kind = ZEOF /\ cf # None
    THEN IF count(h) # br THEN RStep("cont", rest, <<>>, cf, 0)
         ELSE RStep("cont", rest, HeaderBytes(ZRINIT_HEADER), cf, 0)
    ELSE IF h.kind = ZFIN /\ cf # None
    THEN RStep("done", rest, HeaderBytes(ZFIN_HEADER), cf, 0)
    ELSE IF cf = None THEN RStep("cont", rest, HeaderBytes(ZRINIT_HEADER), cf, 0)
    ELSE RStep("cont", rest, HeaderBytes(ZNAK_HEADER), cf, 0)

read_frame_data_without_file(h, rest, cf, br) ==
    IF h.kind = ZFILE
    THEN IF cf = None \/ br = U32(0)
         THEN IF br # U32(0) THEN RStep("panic", rest, <<>>, cf, 0)
              ELSE read_zfile(h, rest, cf)
         ELSE RStep("cont", rest, <<>>, cf, 0)
    ELSE IF h.kind = ZDATA
    THEN IF count(h) # br
         THEN RStep("cont", rest, HeaderBytes(with_count(ZRPOS_HEADER, br)), cf, 0)
         ELSE RStep("zdata", rest, <<>>, cf, h.encoding)
    ELSE IF h.kind = ZEOF /\ cf # None
    THEN IF count(h) # br THEN RStep("cont", rest, <<>>, cf, 0)
         ELSE RStep("cont", rest, HeaderBytes(ZRINIT_HEADER), cf, 0)
    ELSE IF h.kind = ZFIN /\ cf # None
    THEN RStep("done", rest, HeaderBytes(ZFIN_HEADER), cf, 0)
    ELSE IF cf = None THEN RStep("cont", rest, HeaderBytes(ZRINIT_HEADER), cf, 0)
    ELSE RStep("cont", rest, <<>>, cf, 0)

\* What read does with a parsed frame: match frame.kind()
read_frame(h, rest, cf, br) ==
    IF h.kind = ZFILE
    THEN IF cf = None \/ br = U32(0)
         THEN IF br # U32(0) THEN RStep("panic", rest, <<>>, cf, 0)
              ELSE read_zfile(h, rest, cf)
         ELSE RStep("cont", rest, <<>>, cf, 0)
    ELSE IF h.kind = ZDATA
    THEN IF cf = None THEN RStep("cont", rest, HeaderBytes(ZRINIT_HEADER), cf, 0)
         ELSE IF count(h) # br
         THEN RStep("cont", rest, HeaderBytes(with_count(ZRPOS_HEADER, br)), cf, 0)
         ELSE RStep("zdata", rest, <<>>, cf, h.encoding)
    ELSE IF h.kind = ZEOF /\ cf # None
    THEN IF count(h) # br THEN RStep("cont", rest, <<>>, cf, 0)
         ELSE RStep("cont", rest, HeaderBytes(ZRINIT_HEADER), cf, 0)
    ELSE IF h.kind = ZFIN /\ cf # None
    THEN RStep("done", rest, HeaderBytes(ZFIN_HEADER), cf, 0)
    ELSE IF cf = None THEN RStep("cont", rest, HeaderBytes(ZRINIT_HEADER), cf, 0)
    ELSE RStep("cont", rest, <<>>, cf, 0)

read_iter_drops_bad(inp, f, cf, br) ==
    Bind(read_zpad(inp, f), LAMBDA zp :
        IF zp.st = "block" THEN RStep("block", inp, <<>>, cf, 0)
        ELSE IF zp.st = "err" THEN RStep("cont", zp.rest, <<>>, cf, 0)
        ELSE Bind(HeaderRead(zp.rest, f), LAMBDA hr :
            IF hr.st = "block" THEN RStep("block", inp, <<>>, cf, 0)
            ELSE IF hr.st = "err" THEN RStep("cont", hr.rest, <<>>, cf, 0)
            ELSE read_frame(hr.v, hr.rest, cf, br)))

\* One pass of the loop of read.  A channel that has failed fails the first
\* read of the pass, so what follows read_zpad runs on a working channel.
read_iter(inp, f, cf, br) ==
    Bind(read_zpad(inp, f), LAMBDA zp :
        IF zp.st = "block" THEN RStep("block", inp, <<>>, cf, 0)
        ELSE IF zp.st = "err" THEN RStep("cont", zp.rest, <<>>, cf, 0)
        ELSE Bind(HeaderRead(zp.rest, f), LAMBDA hr :
            IF hr.st = "block" THEN RStep("block", inp, <<>>, cf, 0)
            ELSE IF hr.st = "err"
            THEN RStep("cont", hr.rest, HeaderBytes(ZNAK_HEADER), cf, 0)
            ELSE read_frame(hr.v, hr.rest, cf, br)))

advance_with_zcrc(cnt, buf) == Add32(cnt, Len(buf) + 1)

\* *count += buf.len() as u32
advance(cnt, buf) == Add32(cnt, Len(buf))

\* The outcome of one pass of the loop of read_zdata.  st: "block", "more"
\* (the loop goes on), "ret" (return Ok), "err" or "panic"; data: the bytes
\* the sink took; count: the new *count.
DStep(st, rest, out, data, cnt) ==
    [st |-> st, rest |-> rest, out |-> out, data |-> data, count |-> cnt]

read_zdata_iter_ack_all(inp, f, encoding, cnt, sinkok, wraps) ==
    Bind(read_subpacket(inp, f, encoding), LAMBDA sp :
        IF sp.st = "block" THEN DStep("block", inp, <<>>, <<>>, cnt)
        ELSE IF sp.st = "panic" THEN DStep("panic", sp.rest, <<>>, <<>>, cnt)
        ELSE IF sp.st = "err"
        THEN IF f THEN DStep("err", sp.rest, <<>>, <<>>, cnt)
             ELSE DStep("ret", sp.rest,
                        HeaderBytes(with_count(ZRPOS_HEADER, cnt)), <<>>, cnt)
        ELSE IF ~sinkok THEN DStep("err", sp.rest, <<>>, <<>>, cnt)
        ELSE Bind(advance(cnt, sp.v[2]), LAMBDA a :
            IF a.overflow /\ ~wraps
            THEN DStep("panic", sp.rest, <<>>, sp.v[2], cnt)
            ELSE IF sp.v[1] = ZCRCW
            THEN DStep("ret", sp.rest,
                       HeaderBytes(with_count(ZACK_HEADER, a.v)), sp.v[2], a.v)
            ELSE IF sp.v[1] = ZCRCE
            THEN DStep("ret", sp.rest, <<>>, sp.v[2], a.v)
            ELSE IF sp.v[1] = ZCRCQ
            THEN DStep("more", sp.rest,
                       HeaderBytes(with_count(ZACK_HEADER, a.v)), sp.v[2], a.v)
            ELSE DStep("more", sp.rest,
                       HeaderBytes(with_count(ZACK_HEADER, a.v)), sp.v[2], a.v)))

read_zdata_iter_nak_on_crc(inp, f, encoding, cnt, sinkok, wraps) ==
    Bind(read_subpacket(inp, f, encoding), LAMBDA sp :
        IF sp.st = "block" THEN DStep("block", inp, <<>>, <<>>, cnt)
        ELSE IF sp.st = "panic" THEN DStep("panic", sp.rest, <<>>, <<>>, cnt)
        ELSE IF sp.st = "err"
        THEN IF f THEN DStep("err", sp.rest, <<>>, <<>>, cnt)
             ELSE DStep("ret", sp.rest,
                        HeaderBytes(ZNAK_HEADER), <<>>, cnt)
        ELSE IF ~sinkok THEN DStep("err", sp.rest, <<>>, <<>>, cnt)
        ELSE Bind(advance(cnt, sp.v[2]), LAMBDA a :
            IF a.overflow /\ ~wraps
            THEN DStep("panic", sp.rest, <<>>, sp.v[2], cnt)
            ELSE IF sp.v[1] = ZCRCW
            THEN DStep("ret", sp.rest,
                       HeaderBytes(with_count(ZACK_HEADER, a.v)), sp.v[2], a.v)
            ELSE IF sp.v[1] = ZCRCE
            THEN DStep("ret", sp.rest, <<>>, sp.v[2], a.v)
            ELSE IF sp.v[1] = ZCRCQ
            THEN DStep("more", sp.rest,
                       HeaderBytes(with_count(ZACK_HEADER, a.v)), sp.v[2], a.v)
            ELSE DStep("more", sp.rest, <<>>, sp.v[2], a.v)))

\* One pass of the loop of read_zdata.  sinkok: whether file.write succeeds;
\* wraps: whether the build lets u32 addition wrap (overflow checks off)
\* rather than panic (overflow checks on).
read_zdata_iter(inp, f, encoding, cnt, sinkok, wraps) ==
    Bind(read_subpacket(inp, f, encoding), LAMBDA sp :
        IF sp.st = "block" THEN DStep("block", inp, <<>>, <<>>, cnt)
        ELSE IF sp.st = "panic" THEN DStep("panic", sp.rest, <<>>, <<>>, cnt)
        ELSE IF sp.st = "err"
        THEN IF f THEN DStep("err", sp.rest, <<>>, <<>>, cnt)
             ELSE DStep("ret", sp.rest,
                        HeaderBytes(with_count(ZRPOS_HEADER, cnt)), <<>>, cnt)
        ELSE IF ~sinkok THEN DStep("err", sp.rest, <<>>, <<>>, cnt)
        ELSE Bind(advance(cnt, sp.v[2]), LAMBDA a :
            IF a.overflow /\ ~wraps
            THEN DStep("panic", sp.rest, <<>>, sp.v[2], cnt)
            ELSE IF sp.v[1] = ZCRCW
            THEN DStep("ret", sp.rest,
                       HeaderBytes(with_count(ZACK_HEADER, a.v)), sp.v[2], a.v)
            ELSE IF sp.v[1] = ZCRCE
            THEN DStep("ret", sp.rest, <<>>, sp.v[2], a.v)
            ELSE IF sp.v[1] = ZCRCQ
            THEN DStep("more", sp.rest,
                       HeaderBytes(with_count(ZACK_HEADER, a.v)), sp.v[2], a.v)
            ELSE DStep("more", sp.rest, <<>>, sp.v[2], a.v)))

(***************************************************************************)
(* Bounds of the model                                                     *)
(***************************************************************************)
\* Longest file of a session: two windows of SUBPACKET_PER_ACK subpackets of
\* SUBPACKET_SIZE bytes, and one byte more
MaxFileLen == 41
\* Longest file sent to an arbitrary peer or over a channel that fails
MaxShortFileLen == 5
\* Number of items an arbitrary peer puts on the wire for write
MaxSendFed == 5
\* Number of items an arbitrary peer puts on the wire for read
MaxRecvFed == 4
\* Longest payload of the subpacket round trip drawn from PayloadBytes
MaxPayload == 3

\* File contents: prefixes of repeating patterns.  The first pattern holds
\* bytes that are escaped on the wire (ZDLE, XON, 0xFF, CR, 0x7F), the values
\* of the subpacket terminators ZCRCG and ZCRCW, ZPAD and NUL.
FilePatterns == {<<24, 105, 17, 0, 255, 42, 13, 107, 127>>, <<65, 66, 67>>}
FileOf(pat, n) == [i \in 1 .. n |-> pat[((i - 1) % Len(pat)) + 1]]
Files == {FileOf(pat, n) : pat \in FilePatterns, n \in 0 .. MaxFileLen}
ShortFiles ==
    {FileOf(<<24, 105, 17, 0, 255, 42, 13, 107, 127>>, n) : n \in 0 .. MaxShortFileLen}

\* A u32 two short of its largest value
NearWrap == <<65535, 65534>>

\* bytes with its last byte changed
Corrupt(bytes) == [bytes EXCEPT ![Len(bytes)] = (@ + 1) % 256]

\* What an arbitrary peer sends to write: frames it handles, frames it does
\* not expect, offsets inside and beyond the file, a frame with a wrong CRC
\* and a stray ZPAD
SenderMenu ==
    {HeaderBytes(h) :
        h \in {ZRINIT_HEADER, ZNAK_HEADER, ZFIN_HEADER,
               Header(ZBIN, ZSKIP, <<0, 0, 0, 0>>),
               with_count(ZRPOS_HEADER, <<65535, 65535>>)}
            \cup {with_count(ZRPOS_HEADER, U32(n)) : n \in 0 .. 2}
            \cup {with_count(ZACK_HEADER, U32(n)) : n \in 1 .. 2}}
        \cup {Corrupt(HeaderBytes(Header(ZBIN, ZRINIT, <<0, 0, 0, 0>>))), <<ZPAD>>}

\* What an arbitrary peer sends to read whatever state.1 is: frames, data and
\* file-name subpackets (a name, an empty name, a name of MaxNameLen + 1
\* bytes), two subpackets in a row, and a frame and a subpacket with a wrong
\* CRC
ReceiverFixedMenu ==
    {HeaderBytes(h) :
        h \in {ZRQINIT_HEADER, ZFIN_HEADER,
               Header(ZBIN32, ZFILE, <<0, 0, 0, 0>>),
               with_count(ZDATA_HEADER, U32(1))}}
        \cup {SubpacketBytes(ZBIN32, k, p) :
                 k \in PACKETS, p \in {<<65>>, <<24, 107>>}}
        \cup {SubpacketBytes(ZBIN32, ZCRCW, p) :
                 p \in {<<97, 0>>, <<0>>,
                        [i \in 1 .. MaxNameLen + 1 |-> 97] \o <<0>>}}
        \cup {SubpacketBytes(ZBIN32, ZCRCG, <<65>>)
                  \o SubpacketBytes(ZBIN32, ZCRCE, <<66>>)}
        \cup {Corrupt(HeaderBytes(Header(ZBIN, ZFIN, <<0, 0, 0, 0>>))),
              Corrupt(SubpacketBytes(ZBIN32, ZCRCW, <<65>>))}

\* What an arbitrary peer sends to read when state.1 is br: the above, and
\* the ZDATA and ZEOF frames for the offset br
ReceiverMenu(br) ==
    ReceiverFixedMenu
        \cup {HeaderBytes(h) :
                 h \in {with_count(ZDATA_HEADER, br), with_count(ZEOF_HEADER, br)}}

\* Values of the codec round trips
FlagValues == {<<b, c, 255 - b, c>> : b \in Byte, c \in {0, 24}}
PayloadBytes == {0, 13, 17, 24, 104, 107, 127, 255}
Payloads ==
    UNION {[1 .. n -> PayloadBytes] : n \in 0 .. MaxPayload}
        \cup {FileOf(pat, n) : pat \in FilePatterns, n \in {MaxFileLen, TxCapacity}}
CodecInputs ==
    [op : {"header"}, encoding : ENCODINGS, kind : FRAMES, data : FlagValues]
        \cup [op : {"subpacket"}, encoding : {ZBIN, ZBIN32}, kind : PACKETS,
              data : Payloads]

(***************************************************************************)
(* State after construction                                                *)
(***************************************************************************)
senderVars == <<file, size, spc, stage, sframe, szfin, szeof, swr, spass>>
receiverVars ==
    <<rpc, current_file, bytes_received, entry, renc, sink, rwr, rframe,
      rpass>>
codecVars == <<cin, cout>>

ChannelInit ==
    /\ s2r = <<>>
    /\ r2s = <<>>
    /\ failed = FALSE
    /\ ioerr = FALSE
    /\ fed = 0

\* write about to be called (pc = "start"), or no sender (pc = "off")
SenderInit(pc) ==
    /\ spc = pc
    /\ stage = "Waiting"
    /\ sframe = -1
    /\ szfin = FALSE
    /\ szeof = FALSE
    /\ swr = <<>>
    /\ spass = FALSE

\* read about to be called (pc = "start") with state (cf, br) and an empty
\* sink, or no receiver (pc = "off")
ReceiverInit(pc, cf, br) ==
    /\ rpc = pc
    /\ current_file = cf
    /\ bytes_received = br
    /\ entry = br
    /\ renc = ZBIN
    /\ sink = <<>>
    /\ rwr = <<>>
    /\ rframe = -1
    /\ rpass = FALSE

CodecIdle ==
    /\ cin = None
    /\ cout = None

\* A session: write(port, file, "test", size) against read(port, (None, 0), out)
Init ==
    /\ file \in Files
    /\ size \in {None, Some(Len(file))}
    /\ ChannelInit
    /\ SenderInit("start")
    /\ ReceiverInit("start", None, U32(0))
    /\ CodecIdle

(***************************************************************************)
(* write                                                                   *)
(***************************************************************************)
\* ZRQINIT_HEADER.write(port)? before the loop
SenderStart ==
    /\ spc = "start"
    /\ spc' = IF failed THEN "err" ELSE "loop"
    /\ swr' = IF failed THEN <<>> ELSE HeaderBytes(ZRQINIT_HEADER)
    /\ s2r' = s2r \o swr'
    /\ ioerr' = (ioerr \/ failed)
    /\ UNCHANGED <<file, size, stage, sframe, szfin, szeof, spass, r2s, failed,
                   fed>>
    /\ UNCHANGED <<receiverVars, codecVars>>

\* One pass of the loop
SenderStep ==
    /\ spc = "loop"
    /\ \E it \in {write_iter(r2s, failed, stage, file, size)} :
           /\ it.st # "block"
           /\ r2s' = it.rest
           /\ s2r' = s2r \o it.out
           /\ swr' = it.out
           /\ stage' = it.stage
           /\ sframe' = it.kind
           /\ szfin' = (szfin \/ it.kind = ZFIN)
           /\ szeof' = (\/ szeof
                         \/ it.out = HeaderBytes(with_count(ZEOF_HEADER,
                                                            U32(Len(file)))))
           /\ spc' = IF it.st = "cont" THEN "loop" ELSE it.st
    /\ spass' = IF failed THEN ~spass ELSE spass
    /\ ioerr' = (ioerr \/ failed)
    /\ UNCHANGED <<file, size, failed, fed>>
    /\ UNCHANGED <<receiverVars, codecVars>>

(***************************************************************************)
(* read                                                                    *)
(***************************************************************************)
\* Before the loop: with no file open, assert_eq!(state.1, 0) and write_zrinit
ReceiverStart ==
    /\ rpc = "start"
    /\ rpc' = IF current_file # None THEN "loop"
              ELSE IF bytes_received # U32(0) THEN "panic"
              ELSE IF failed THEN "err"
              ELSE "loop"
    /\ rwr' = IF rpc' = "loop" /\ current_file = None
              THEN HeaderBytes(ZRINIT_HEADER) ELSE <<>>
    /\ r2s' = r2s \o rwr'
    /\ ioerr' = (ioerr \/ rpc' = "err")
    /\ UNCHANGED <<current_file, bytes_received, entry, renc, sink, rframe, rpass,
                   s2r, failed, fed>>
    /\ UNCHANGED <<senderVars, codecVars>>

\* One pass of the loop
ReceiverStep ==
    /\ rpc = "loop"
    /\ \E it \in {read_iter(s2r, failed, current_file, bytes_received)} :
           /\ it.st # "block"
           /\ s2r' = it.rest
           /\ r2s' = r2s \o it.out
           /\ rwr' = it.out
           /\ current_file' = it.file
           /\ renc' = IF it.st = "zdata" THEN it.enc ELSE renc
           /\ rpc' = IF it.st = "cont" THEN "loop" ELSE it.st
    /\ rframe' = IF failed THEN -1
                 ELSE Bind(head_frame(s2r), LAMBDA hf :
                          IF hf.st = "ok" THEN hf.v.kind ELSE -1)
    /\ rpass' = IF failed THEN ~rpass ELSE rpass
    /\ ioerr' = (ioerr \/ failed)
    /\ UNCHANGED <<bytes_received, entry, sink, failed, fed>>
    /\ UNCHANGED <<senderVars, codecVars>>

\* One pass of the loop of read_zdata
ReceiverData(sinkok, wraps) ==
    /\ rpc = "zdata"
    /\ \E it \in {read_zdata_iter(s2r, failed, renc, bytes_received, sinkok,
                                  wraps)} :
           /\ it.st # "block"
           /\ s2r' = it.rest
           /\ r2s' = r2s \o it.out
           /\ rwr' = it.out
           /\ sink' = sink \o it.data
           /\ bytes_received' = it.count
           /\ rpc' = IF it.st = "more" THEN "zdata"
                     ELSE IF it.st = "ret" THEN "loop" ELSE it.st
           /\ ioerr' = (ioerr \/ failed \/ it.st = "err")
    /\ UNCHANGED <<current_file, entry, renc, rframe, rpass, failed, fed>>
    /\ UNCHANGED <<senderVars, codecVars>>

\* The sink takes the bytes
ReceiverDataOk == \E wraps \in BOOLEAN : ReceiverData(TRUE, wraps)

\* The write to the sink returns an error
ReceiverDataSinkFails == ReceiverData(FALSE, FALSE)

(***************************************************************************)
(* A session: write and read over two reliable FIFO byte channels          *)
(***************************************************************************)
Next ==
    \/ SenderStart
    \/ SenderStep
    \/ ReceiverStart
    \/ ReceiverStep
    \/ ReceiverDataOk

Spec == Init /\ [][Next]_vars

\* Each endpoint runs on a thread of its own and takes its next step whenever
\* it can
SenderRuns == WF_vars(SenderStart \/ SenderStep)
ReceiverRuns == WF_vars(ReceiverStart \/ ReceiverStep \/ ReceiverDataOk)

FairSpec == Spec /\ SenderRuns /\ ReceiverRuns

(***************************************************************************)
(* A session whose channel fails: from some pass on, every read and write  *)
(* of the port returns an error                                            *)
(***************************************************************************)
InitFail ==
    /\ file \in ShortFiles
    /\ size \in {None, Some(Len(file))}
    /\ ChannelInit
    /\ SenderInit("start")
    /\ ReceiverInit("start", None, U32(0))
    /\ CodecIdle

Fail ==
    /\ ~failed
    /\ spc \in {"start", "loop"} \/ rpc \in {"start", "loop", "zdata"}
    /\ failed' = TRUE
    /\ UNCHANGED <<s2r, r2s, ioerr, fed>>
    /\ UNCHANGED <<senderVars, receiverVars, codecVars>>

NextFail ==
    \/ SenderStart
    \/ SenderStep
    \/ ReceiverStart
    \/ ReceiverStep
    \/ ReceiverDataOk
    \/ Fail

FailSpec == InitFail /\ [][NextFail]_vars /\ SenderRuns /\ ReceiverRuns

(***************************************************************************)
(* write against an arbitrary peer                                         *)
(***************************************************************************)
InitSend ==
    /\ file \in ShortFiles
    /\ size \in {None, Some(Len(file))}
    /\ ChannelInit
    /\ SenderInit("start")
    /\ ReceiverInit("off", None, U32(0))
    /\ CodecIdle

\* The peer takes what write sent and, when write waits for bytes, sends an
\* item of its own
FeedSender ==
    /\ spc = "loop"
    /\ fed < MaxSendFed
    /\ write_iter(r2s, failed, stage, file, size).st = "block"
    /\ \E item \in SenderMenu : r2s' = r2s \o item
    /\ s2r' = <<>>
    /\ fed' = fed + 1
    /\ UNCHANGED <<failed, ioerr>>
    /\ UNCHANGED <<senderVars, receiverVars, codecVars>>

NextSend ==
    \/ SenderStart
    \/ SenderStep
    \/ FeedSender

SendSpec == InitSend /\ [][NextSend]_vars

(***************************************************************************)
(* read against an arbitrary peer and a sink that may fail, called with    *)
(* (None, 0) or resumed with a file open                                   *)
(***************************************************************************)
InitRecv ==
    /\ file = <<>>
    /\ size = None
    /\ ChannelInit
    /\ SenderInit("off")
    /\ \/ ReceiverInit("start", None, U32(0))
       \/ ReceiverInit("start", Some(FILE_NAME), NearWrap)
    /\ CodecIdle

\* The peer takes what read sent and, when read waits for bytes, sends an
\* item of its own
FeedReceiver ==
    /\ fed < MaxRecvFed
    /\ \/ /\ rpc = "loop"
          /\ read_iter(s2r, failed, current_file, bytes_received).st = "block"
       \/ /\ rpc = "zdata"
          /\ read_zdata_iter(s2r, failed, renc, bytes_received, TRUE, TRUE).st
                 = "block"
    /\ \E item \in ReceiverMenu(bytes_received) : s2r' = s2r \o item
    /\ r2s' = <<>>
    /\ fed' = fed + 1
    /\ UNCHANGED <<failed, ioerr>>
    /\ UNCHANGED <<senderVars, receiverVars, codecVars>>

NextRecv ==
    \/ ReceiverStart
    \/ ReceiverStep
    \/ ReceiverDataOk
    \/ ReceiverDataSinkFails
    \/ FeedReceiver

RecvSpec == InitRecv /\ [][NextRecv]_vars

(***************************************************************************)
(* Codec round trips: a value is written and read back                     *)
(***************************************************************************)
InitCodec ==
    /\ file = <<>>
    /\ size = None
    /\ ChannelInit
    /\ SenderInit("off")
    /\ ReceiverInit("off", None, U32(0))
    /\ cin \in CodecInputs
    /\ cout = None

\* Header::write, then read_zpad and Header::read on what was written
HeaderRoundTrip ==
    /\ cin.op = "header"
    /\ cout = None
    /\ cout' = Some(Bind(read_zpad(HeaderBytes(Header(cin.encoding, cin.kind,
                                                      cin.data)), FALSE),
                         LAMBDA zp : IF zp.st # "ok" THEN zp
                                     ELSE HeaderRead(zp.rest, FALSE)))
    /\ UNCHANGED <<s2r, r2s, failed, ioerr, fed, cin>>
    /\ UNCHANGED <<senderVars, receiverVars>>

\* write_subpacket, then read_subpacket on what was written
SubpacketRoundTrip ==
    /\ cin.op = "subpacket"
    /\ cout = None
    /\ cout' = Some(read_subpacket(SubpacketBytes(cin.encoding, cin.kind,
                                                  cin.data),
                                   FALSE, cin.encoding))
    /\ UNCHANGED <<s2r, r2s, failed, ioerr, fed, cin>>
    /\ UNCHANGED <<senderVars, receiverVars>>

NextCodec ==
    \/ HeaderRoundTrip
    \/ SubpacketRoundTrip

CodecSpec == InitCodec /\ [][NextCodec]_vars

(***************************************************************************)
(* The escape tables: a pair of bytes is escaped, the first is read back   *)
(***************************************************************************)
EscapeInputs ==
    [op : {"escape"}, encoding : {ZBIN}, kind : {ZCRCE},
     data : {<<a, b>> : a \in Byte, b \in Byte}]

InitEscape ==
    /\ file = <<>>
    /\ size = None
    /\ ChannelInit
    /\ SenderInit("off")
    /\ ReceiverInit("off", None, U32(0))
    /\ cin \in EscapeInputs
    /\ cout = None

\* escape_mem on each byte of the pair, and read_byte_unescaped on the escaped
\* form of the first
EscapeRoundTrip ==
    /\ cin.op = "escape"
    /\ cout = None
    /\ cout' = Some([first |-> escape_mem(<<cin.data[1]>>),
                     second |-> escape_mem(<<cin.data[2]>>),
                     back |-> read_byte_unescaped(escape_mem(<<cin.data[1]>>),
                                                  FALSE)])
    /\ UNCHANGED <<s2r, r2s, failed, ioerr, fed, cin>>
    /\ UNCHANGED <<senderVars, receiverVars>>

NextEscape ==
    \/ EscapeRoundTrip

EscapeSpec == InitEscape /\ [][NextEscape]_vars

(***************************************************************************)
(* One bit of the CRC field flips on the wire between Header::write or     *)
(* write_subpacket and the reader                                          *)
(***************************************************************************)
\* bytes with bit k of its i-th byte flipped
FlipAt(bytes, i, k) == [bytes EXCEPT ![i] = Xor8(@, 2 ^ k)]

\* Where the CRC lies in what Header::write wrote: <<index of its first byte,
\* number of bytes>>.  ZBIN, ZBIN32: the escaped CRC ends the header.  ZHEX:
\* four hex digits after ZPAD ZPAD ZDLE, the encoding and ten digits of kind
\* and flags.
HeaderCrcField(hdr) ==
    IF hdr.encoding = ZHEX THEN <<15, 4>>
    ELSE Bind(Len(escape_mem(make_crc(<<hdr.kind>> \o hdr.flags, hdr.encoding))),
              LAMBDA n : <<Len(HeaderBytes(hdr)) - n + 1, n>>)

\* Where the CRC lies in what write_subpacket wrote: the escaped CRC ends it
SubpacketCrcField(encoding, kind, data) ==
    Bind(Len(escape_mem(make_crc(data \o <<kind>>, encoding))),
         LAMBDA n : <<Len(SubpacketBytes(encoding, kind, data)) - n + 1, n>>)

FlipCandidates ==
    [op : {"header"}, encoding : ENCODINGS, kind : {ZRINIT, ZACK, ZDATA, ZFIN},
     data : {<<b, 0, 0, 0>> : b \in 0 .. 31}, at : 1 .. 8, bit : 0 .. 7]
        \cup [op : {"subpacket"}, encoding : {ZBIN, ZBIN32}, kind : PACKETS,
              data : UNION {[1 .. n -> PayloadBytes] : n \in 0 .. 2},
              at : 1 .. 8, bit : 0 .. 7]

\* The flips that fall inside the CRC field
FlipInputs ==
    {c \in FlipCandidates :
        c.at <= (IF c.op = "header"
                 THEN HeaderCrcField(Header(c.encoding, c.kind, c.data))[2]
                 ELSE SubpacketCrcField(c.encoding, c.kind, c.data)[2])}

InitFlip ==
    /\ file = <<>>
    /\ size = None
    /\ ChannelInit
    /\ SenderInit("off")
    /\ ReceiverInit("off", None, U32(0))
    /\ cin \in FlipInputs
    /\ cout = None

\* Header::write, a flipped bit, then read_zpad and Header::read
FlipHeaderCrc ==
    /\ cin.op = "header"
    /\ cout = None
    /\ \E hdr \in {Header(cin.encoding, cin.kind, cin.data)} :
           cout' = Some(Bind(read_zpad(FlipAt(HeaderBytes(hdr),
                                              HeaderCrcField(hdr)[1] + cin.at - 1,
                                              cin.bit), FALSE),
                             LAMBDA zp : IF zp.st # "ok" THEN zp
                                         ELSE HeaderRead(zp.rest, FALSE)))
    /\ UNCHANGED <<s2r, r2s, failed, ioerr, fed, cin>>
    /\ UNCHANGED <<senderVars, receiverVars>>

\* write_subpacket, a flipped bit, then read_subpacket
FlipSubpacketCrc ==
    /\ cin.op = "subpacket"
    /\ cout = None
    /\ cout' = Some(read_subpacket(
                        FlipAt(SubpacketBytes(cin.encoding, cin.kind, cin.data),
                               SubpacketCrcField(cin.encoding, cin.kind,
                                                 cin.data)[1] + cin.at - 1,
                               cin.bit),
                        FALSE, cin.encoding))
    /\ UNCHANGED <<s2r, r2s, failed, ioerr, fed, cin>>
    /\ UNCHANGED <<senderVars, receiverVars>>

NextFlip ==
    \/ FlipHeaderCrc
    \/ FlipSubpacketCrc

FlipSpec == InitFlip /\ [][NextFlip]_vars

(***************************************************************************)
(* read_zpad on a stream that ends after a few bytes                       *)
(***************************************************************************)
\* The outcome on a stream that has ended: the read_byte that finds no byte
\* returns an error (read_exact at the end of the stream), which read_zpad
\* hands on with ?
at_end_of_stream(r) == IF r.st = "block" THEN Res("err", 0, r.rest) ELSE r

ZpadBytes == {0, XON, ZDLE, ZPAD, ZBIN, 255}

ZpadInputs ==
    [op : {"zpad"}, encoding : {ZBIN}, kind : {ZCRCE},
     data : UNION {[1 .. n -> ZpadBytes] : n \in 0 .. 3}]

InitZpad ==
    /\ file = <<>>
    /\ size = None
    /\ ChannelInit
    /\ SenderInit("off")
    /\ ReceiverInit("off", None, U32(0))
    /\ cin \in ZpadInputs
    /\ cout = None

ReadZpad ==
    /\ cin.op = "zpad"
    /\ cout = None
    /\ cout' = Some(at_end_of_stream(read_zpad(cin.data, FALSE)))
    /\ UNCHANGED <<s2r, r2s, failed, ioerr, fed, cin>>
    /\ UNCHANGED <<senderVars, receiverVars>>

NextZpad ==
    \/ ReadZpad

ZpadSpec == InitZpad /\ [][NextZpad]_vars

(***************************************************************************)
(* write_subpacket under each encoding                                     *)
(***************************************************************************)
WriteSubpacketInputs ==
    [op : {"write_subpacket"}, encoding : ENCODINGS, kind : PACKETS,
     data : UNION {[1 .. n -> PayloadBytes] : n \in 0 .. 2},
     portok : BOOLEAN]

InitWriteSubpacket ==
    /\ file = <<>>
    /\ size = None
    /\ ChannelInit
    /\ SenderInit("off")
    /\ ReceiverInit("off", None, U32(0))
    /\ cin \in WriteSubpacketInputs
    /\ cout = None

WriteSubpacket ==
    /\ cin.op = "write_subpacket"
    /\ cout = None
    /\ cout' = Some(write_subpacket(cin.encoding, cin.kind, cin.data, cin.portok))
    /\ UNCHANGED <<s2r, r2s, failed, ioerr, fed, cin>>
    /\ UNCHANGED <<senderVars, receiverVars>>

NextWriteSubpacket ==
    \/ WriteSubpacket

WriteSubpacketSpec == InitWriteSubpacket /\ [][NextWriteSubpacket]_vars

(***************************************************************************)
(* Header::write on its own                                                *)
(***************************************************************************)
HeaderWriteInputs ==
    [op : {"write_header"}, encoding : ENCODINGS, kind : FRAMES,
     data : FlagValues]

InitHeaderWrite ==
    /\ file = <<>>
    /\ size = None
    /\ ChannelInit
    /\ SenderInit("off")
    /\ ReceiverInit("off", None, U32(0))
    /\ cin \in HeaderWriteInputs
    /\ cout = None

\* Header::write into an empty port: cout is what the port holds afterwards
WriteHeader ==
    /\ cin.op = "write_header"
    /\ cout = None
    /\ cout' = Some(HeaderBytes(Header(cin.encoding, cin.kind, cin.data)))
    /\ UNCHANGED <<s2r, r2s, failed, ioerr, fed, cin>>
    /\ UNCHANGED <<senderVars, receiverVars>>

NextHeaderWrite ==
    \/ WriteHeader

HeaderWriteSpec == InitHeaderWrite /\ [][NextHeaderWrite]_vars

(***************************************************************************)
(* write_zdata on its own                                                  *)
(***************************************************************************)
\* A file and the offset of the ZRPOS or ZACK frame handed to write_zdata:
\* offsets inside the file, at its end and beyond it
PumpInputs ==
    [op : {"pump"}, encoding : {ZHEX}, kind : {ZRPOS, ZACK}, data : Files,
     offset : {U32(n) : n \in 0 .. MaxFileLen + 1}
                  \cup {<<1, 0>>, <<65535, 65535>>}]

InitPump ==
    /\ file = <<>>
    /\ size = None
    /\ ChannelInit
    /\ SenderInit("off")
    /\ ReceiverInit("off", None, U32(0))
    /\ cin \in PumpInputs
    /\ cout = None

\* write_zdata into an empty port: cout is what the port holds afterwards
WriteZdata ==
    /\ cin.op = "pump"
    /\ cout = None
    /\ cout' = Some(write_zdata(cin.data,
                                Header(cin.encoding, cin.kind,
                                       to_le_bytes(cin.offset))))
    /\ UNCHANGED <<s2r, r2s, failed, ioerr, fed, cin>>
    /\ UNCHANGED <<senderVars, receiverVars>>

NextPump ==
    \/ WriteZdata

PumpSpec == InitPump /\ [][NextPump]_vars

\* The subpackets that read_subpacket takes in turn from inp, at most n of
\* them, as <<kind, payload>>; <<-1, <<>>>> stands for one it rejects
RECURSIVE read_subpackets(_, _)
read_subpackets(inp, n) ==
    IF n = 0 \/ inp = <<>> THEN <<>>
    ELSE Bind(read_subpacket(inp, FALSE, ZBIN32), LAMBDA r :
             IF r.st # "ok" THEN <<<<-1, <<>>>>>>
             ELSE <<r.v>> \o read_subpackets(r.rest, n - 1))

\* What a reader makes of bytes: the header after the preamble and the
\* subpackets after it
read_window(bytes) ==
    Bind(read_zpad(bytes, FALSE), LAMBDA zp :
    Bind(IF zp.st = "ok" THEN HeaderRead(zp.rest, FALSE) ELSE zp, LAMBDA h :
        [st |-> h.st, header |-> h.v,
         subs |-> IF h.st = "ok"
                  THEN read_subpackets(h.rest, SUBPACKET_PER_ACK + 2)
                  ELSE <<>>]))

RECURSIVE Concat(_)
Concat(ss) == IF ss = <<>> THEN <<>> ELSE ss[1][2] \o Concat(Tail(ss))

(***************************************************************************)
(* write and read called with a frame already waiting in the port:         *)
(* every kind of frame in every encoding, and frames that fail to parse    *)
(***************************************************************************)
\* Well-formed frames: each kind in each encoding with counts 0 to 3
GoodFrames ==
    {HeaderBytes(Header(e, k, to_le_bytes(U32(n)))) :
        e \in ENCODINGS, k \in FRAMES, n \in 0 .. 3}

\* Frames that fail to parse: an encoding byte that is none of 'A', 'B', 'C';
\* a last CRC byte changed (ZBIN, ZBIN32); a CRC digit changed and a byte
\* that is no hex digit (ZHEX); a kind byte beyond ZSTDERR under a CRC that
\* matches
BadFrames ==
    {<<ZPAD, ZDLE, 68, ZFIN, 0, 0, 0, 0, 0, 0>>}
        \cup {Corrupt(HeaderBytes(Header(e, k, <<0, 0, 0, 0>>))) :
                 e \in {ZBIN, ZBIN32}, k \in {ZFILE, ZDATA, ZFIN}}
        \cup {[HeaderBytes(Header(ZHEX, k, <<0, 0, 0, 0>>))
                   EXCEPT ![18] = IF @ = 48 THEN 49 ELSE 48] :
                 k \in {ZRINIT, ZRPOS, ZFIN}}
        \cup {[HeaderBytes(Header(ZHEX, k, <<0, 0, 0, 0>>)) EXCEPT ![6] = 103] :
                 k \in {ZRINIT, ZRPOS, ZFIN}}
        \cup {HeaderBytes(Header(e, k, <<0, 0, 0, 0>>)) :
                 e \in ENCODINGS, k \in {ZSTDERR + 1, 255}}

\* What follows the frame in the port: nothing, a subpacket, or a subpacket
\* whose CRC is wrong
FrameTails ==
    {<<>>, SubpacketBytes(ZBIN32, ZCRCW, <<65, 66>>),
     Corrupt(SubpacketBytes(ZBIN32, ZCRCW, <<65, 66>>))}

InitReact ==
    /\ file = FileOf(<<65, 66, 67>>, 3)
    /\ size = None
    /\ failed = FALSE
    /\ ioerr = FALSE
    /\ fed = 0
    /\ CodecIdle
    /\ \/ /\ SenderInit("start")
          /\ ReceiverInit("off", None, U32(0))
          /\ s2r = <<>>
          /\ \E pre \in {<<>>, HeaderBytes(ZRINIT_HEADER),
                         HeaderBytes(ZRINIT_HEADER) \o HeaderBytes(ZRPOS_HEADER)} :
                 \E item \in GoodFrames \cup BadFrames : r2s = pre \o item
       \/ /\ SenderInit("off")
          /\ \/ ReceiverInit("start", None, U32(0))
             \/ \E n \in 0 .. 2 : ReceiverInit("start", Some(FILE_NAME), U32(n))
          /\ r2s = <<>>
          /\ \E item \in GoodFrames \cup BadFrames :
                 \E tail \in FrameTails : s2r = item \o tail

NextReact ==
    \/ SenderStart
    \/ SenderStep
    \/ ReceiverStart
    \/ ReceiverStep
    \/ ReceiverDataOk
    \/ ReceiverDataSinkFails

ReactSpec == InitReact /\ [][NextReact]_vars

(***************************************************************************)
(* Properties                                                              *)
(***************************************************************************)
\* C1: when a session of write against read that started from (None, 0) has
\* run to the end of read, the bytes the receiver wrote to its sink are the
\* bytes of the sender's file, in order, for a file of any length.
RoundTrip == rpc = "done" => sink = file

\* A session has ended for a file of two full windows and one byte more
RoundTripReached == rpc = "done" /\ sink = file /\ Len(file) = MaxFileLen

\* C2: in a session over a channel that does not fail, with both endpoints
\* running, both calls return: from some point on write has returned after
\* writing "OO" and read has returned after writing its ZFIN.
SessionTerminates ==
    <>[](/\ spc = "done"
         /\ rpc = "done"
         /\ swr = OO
         /\ rwr = HeaderBytes(Header(ZHEX, ZFIN, <<0, 0, 0, 0>>)))

\* Both calls have returned and write ended with "OO" after a ZFIN
SessionTerminated ==
    spc = "done" /\ rpc = "done" /\ swr = OO /\ szfin /\ Len(file) = MaxFileLen

\* C3: once the channel has failed, both calls return (with an error or
\* otherwise): neither keeps running forever.
ChannelFailureReturns ==
    failed ~> (spc \in {"done", "err"} /\ rpc \in {"done", "err", "panic"})

\* C4 as stated: write writes "OO" and returns only after it has received a
\* ZFIN.
OOOnlyAfterZFIN == spc = "done" => szfin

\* C4: write returns Ok exactly by writing "OO", which it does on receiving,
\* while its stage is not Waiting, any frame other than ZRINIT, ZRPOS and
\* ZACK; it writes "OO" at no other time.
OOAfterUnhandledFrame ==
    /\ spc = "done" =>
           /\ swr = OO
           /\ stage # "Waiting"
           /\ sframe \in FRAMES \ {ZRINIT, ZRPOS, ZACK}
    /\ swr = OO => spc = "done"

\* write has returned after "OO" in answer to a ZNAK, no ZFIN received
OOAfterZNAK == spc = "done" /\ swr = OO /\ sframe = ZNAK /\ ~szfin

\* C5: read and write return an error only when a read or a write of the
\* channel or of the sink has failed; a fault in the inbound stream, an empty
\* or oversize file name included, is answered in the protocol and the call
\* keeps running.
ErrorOnlyOnIoFailure == (rpc = "err" \/ spc = "err") => ioerr

\* C6: the stage of write leaves Waiting only in the pass that receives a
\* ZRINIT and writes the ZFILE header with its ZCRCW subpacket, and it never
\* comes back to Waiting.
StageLeavesWaitingOnZRINIT ==
    [][/\ (stage = "Waiting" /\ stage' # "Waiting") =>
              /\ sframe' = ZRINIT
              /\ stage' = "Ready"
              /\ swr' = write_zfile(FILE_NAME, unwrap_or(size, 0))
       /\ stage # "Waiting" => stage' # "Waiting"]_vars

\* write has left Waiting, received a data request and later another ZRINIT
StageLeftWaiting == stage = "Receiving" /\ sframe = ZRINIT /\ spc = "loop"

\* C7: bytes_received never decreases, whatever the peer sends.
BytesReceivedNeverDecreases ==
    [][~Less32(bytes_received', bytes_received)]_vars

HeaderRoundTripHolds ==
    (cout # None /\ cin.op = "header") =>
        /\ cout[1].st = "ok"
        /\ cout[1].v = Header(cin.encoding, cin.kind, cin.data)

\* A ZHEX header with flags that a binary encoding would escape was read back
HeaderRoundTripReached ==
    /\ cout # None
    /\ cin.op = "header"
    /\ cin.encoding = ZHEX
    /\ cin.data = <<255, 24, 0, 24>>
    /\ cout[1].st = "ok"

\* C10: a subpacket of encoding ZBIN or ZBIN32, any terminator and any
\* payload, written by write_subpacket and read back by read_subpacket, gives
\* the same terminator and the same payload and consumes exactly what was
\* written.
SubpacketRoundTripHolds ==
    (cout # None /\ cin.op = "subpacket") =>
        /\ cout[1].st = "ok"
        /\ cout[1].v = <<cin.kind, cin.data>>
        /\ cout[1].rest = <<>>

\* A payload of ZDLE, the value of ZCRCW and 0xFF was read back
SubpacketRoundTripReached ==
    /\ cout # None
    /\ cin.op = "subpacket"
    /\ cin.data = <<24, 107, 255>>
    /\ cin.kind = ZCRCE
    /\ cout[1].st = "ok"

\* C11: for every byte b, when the escape table changes b the unescape table
\* maps the table entry back to b and b goes out as ZDLE and the entry;
\* otherwise b goes out as itself; either way it is read back as b, and no two
\* distinct bytes have the same escaped form.
EscapeInverts ==
    cout # None =>
        /\ ZDLE_TABLE[cin.data[1] + 1] # cin.data[1] =>
               /\ UNZDLE_TABLE[ZDLE_TABLE[cin.data[1] + 1] + 1] = cin.data[1]
               /\ cout[1].first = <<ZDLE, ZDLE_TABLE[cin.data[1] + 1]>>
        /\ ZDLE_TABLE[cin.data[1] + 1] = cin.data[1] =>
               cout[1].first = <<cin.data[1]>>
        /\ cout[1].back = Res("ok", cin.data[1], <<>>)
        /\ cin.data[1] # cin.data[2] => cout[1].first # cout[1].second

\* 0x7F and 0xFF, whose table entries 0x6C and 0x6D are neighbours, were
\* escaped and 0x7F was read back
EscapeInvertsReached ==
    /\ cout # None
    /\ cin.data = <<127, 255>>
    /\ cout[1].first = <<ZDLE, 108>>
    /\ cout[1].second = <<ZDLE, 109>>
    /\ cout[1].back.v = 127

\* C12 as stated: the bytes escaped are exactly 0x18, 0x10, 0x11, 0x13, 0x90,
\* 0x91, 0x93, 0x7F and 0xFF, with 0x18 sent as 0x68, the six control bytes
\* XORed with 0x40, 0x7F as 0x6C and 0xFF as 0x6D; every other byte passes
\* through.
EscapedBytesAsStated ==
    cout # None =>
        cout[1].first =
            IF cin.data[1] = 24 THEN <<ZDLE, 104>>
            ELSE IF cin.data[1] \in {16, 17, 19, 144, 145, 147}
            THEN <<ZDLE, Xor8(cin.data[1], 64)>>
            ELSE IF cin.data[1] = 127 THEN <<ZDLE, 108>>
            ELSE IF cin.data[1] = 255 THEN <<ZDLE, 109>>
            ELSE <<cin.data[1]>>

\* C12: the bytes escaped are exactly 0x0D, 0x10, 0x11, 0x13, 0x18, 0x8D,
\* 0x90, 0x91, 0x93, 0x7F and 0xFF; 0x7F is sent as 0x6C, 0xFF as 0x6D and
\* the others, ZDLE included (0x58), XORed with 0x40; every other byte passes
\* through.
EscapedBytes ==
    cout # None =>
        cout[1].first =
            IF cin.data[1] \in {13, 16, 17, 19, 24, 141, 144, 145, 147}
            THEN <<ZDLE, Xor8(cin.data[1], 64)>>
            ELSE IF cin.data[1] = 127 THEN <<ZDLE, 108>>
            ELSE IF cin.data[1] = 255 THEN <<ZDLE, 109>>
            ELSE <<cin.data[1]>>

\* CR was escaped as ZDLE 0x4D and ZDLE as ZDLE 0x58
EscapedCRAndZDLE ==
    /\ cout # None
    /\ cin.data = <<13, 24>>
    /\ cout[1].first = <<ZDLE, 77>>
    /\ cout[1].second = <<ZDLE, 88>>

\* C13: after any single bit of the CRC field of a written header or
\* subpacket has flipped, the reader accepts no header and no payload from it.
CrcFlipRejected == cout # None => cout[1].st # "ok"

\* C14: read_zpad returns Ok exactly when the stream begins with ZPAD ZDLE or
\* with ZPAD ZPAD ZDLE, and it has then taken exactly these bytes; on every
\* other stream, the empty one included, it returns InvalidData.
ZpadAcceptsPreamble ==
    cout # None =>
        /\ cout[1].st \in {"ok", "err"}
        /\ cout[1].st = "ok" <=>
               \/ Len(cin.data) >= 2 /\ Take(cin.data, 2) = <<ZPAD, ZDLE>>
               \/ Len(cin.data) >= 3 /\ Take(cin.data, 3) = <<ZPAD, ZPAD, ZDLE>>
        /\ cout[1].st = "ok" =>
               cout[1].rest = Drop(cin.data, IF cin.data[2] = ZDLE THEN 2 ELSE 3)

\* read_zpad has accepted the stream ZPAD ZPAD ZDLE
ZpadTwoPadsAccepted ==
    /\ cout # None
    /\ cin.data = <<ZPAD, ZPAD, ZDLE>>
    /\ cout[1].st = "ok"

\* C15: write_subpacket asked for the ZHEX encoding returns InvalidData; it
\* does not panic.
ZhexSubpacketIsInvalidData ==
    (cout # None /\ cin.encoding = ZHEX) => cout[1].st = "err"

\* C16: what Header::write puts on the wire is one ZPAD (two for ZHEX), ZDLE,
\* the encoding byte and the escaped body (kind, flags and CRC; their hex
\* digits for ZHEX); a ZHEX header is followed by CR LF, and by XON exactly
\* when its kind is neither ZACK nor ZFIN; ZBIN and ZBIN32 headers end with
\* the body.
HeaderFraming ==
    cout # None =>
        LET body == <<cin.kind>> \o cin.data
                        \o make_crc(<<cin.kind>> \o cin.data, cin.encoding)
            pads == IF cin.encoding = ZHEX THEN <<ZPAD, ZPAD>> ELSE <<ZPAD>>
            trailer == IF cin.encoding # ZHEX THEN <<>>
                       ELSE IF cin.kind \in {ZACK, ZFIN} THEN <<13, 10>>
                       ELSE <<13, 10, XON>>
        IN  cout[1] = pads \o <<ZDLE, cin.encoding>>
                          \o escape_mem(IF cin.encoding = ZHEX
                                        THEN hex_encode(body) ELSE body)
                          \o trailer

\* A ZHEX ZACK header has been written, ending in CR LF with no XON
HexZackWritten ==
    /\ cout # None
    /\ cin.encoding = ZHEX
    /\ cin.kind = ZACK
    /\ Drop(cout[1], Len(cout[1]) - 2) = <<13, 10>>

\* C17: write_zdata called with offset o, when the file has a byte at o,
\* writes one ZDATA header with count o, then 1 to SUBPACKET_PER_ACK - 1
\* ZCRCG subpackets and one ZCRCW subpacket as the last; no subpacket carries
\* more than SUBPACKET_SIZE bytes, and the payloads put together are the bytes
\* of the file from o on, up to the end of the file or to SUBPACKET_PER_ACK
\* full subpackets.
PumpWindow ==
    (cout # None /\ file_read(cin.data, seek(cin.data, cin.offset)) # <<>>) =>
        Bind(read_window(cout[1]), LAMBDA w :
        Bind(Concat(w.subs), LAMBDA payload :
            /\ w.st = "ok"
            /\ w.header = Header(ZBIN32, ZDATA, to_le_bytes(cin.offset))
            /\ Len(w.subs) \in 2 .. SUBPACKET_PER_ACK
            /\ \A i \in 1 .. Len(w.subs) - 1 : w.subs[i][1] = ZCRCG
            /\ w.subs[Len(w.subs)][1] = ZCRCW
            /\ \A i \in 1 .. Len(w.subs) : Len(w.subs[i][2]) <= SUBPACKET_SIZE
            /\ Len(payload) =
                   IF Len(cin.data) - cin.offset[2] <= SUBPACKET_PER_ACK * SUBPACKET_SIZE
                   THEN Len(cin.data) - cin.offset[2]
                   ELSE SUBPACKET_PER_ACK * SUBPACKET_SIZE
            /\ payload = SubSeq(cin.data, cin.offset[2] + 1,
                                cin.offset[2] + Len(payload))))

\* A full window has been written from an offset inside a file that goes on
\* after it
FullWindowWritten ==
    /\ cout # None
    /\ cin.offset = U32(1)
    /\ Len(cin.data) > 1 + SUBPACKET_PER_ACK * SUBPACKET_SIZE
    /\ Len(read_window(cout[1]).subs) = SUBPACKET_PER_ACK

\* C19: write_zdata called with an offset at which the file has no byte (at
\* or past its end, offset 0 of an empty file included) writes one ZEOF
\* header whose count is the offset it was called with, and nothing else.
PumpAtEnd ==
    (cout # None /\ file_read(cin.data, seek(cin.data, cin.offset)) = <<>>) =>
        Bind(read_zpad(cout[1], FALSE), LAMBDA zp :
            /\ zp.st = "ok"
            /\ HeaderRead(zp.rest, FALSE) =
                   Res("ok", Header(ZBIN32, ZEOF, to_le_bytes(cin.offset)), <<>>))

\* ZEOF has been written for an offset beyond the end of a file that is not
\* empty
EofPastEndWritten ==
    /\ cout # None
    /\ cin.data # <<>>
    /\ cin.offset = U32(Len(cin.data) + 1)
    /\ cout[1] = HeaderBytes(Header(ZBIN32, ZEOF, to_le_bytes(cin.offset)))

\* C18: a pass of the loop of write writes a ZDATA or ZEOF header only when
\* it has read a ZRPOS or a ZACK while not Waiting, and such a pass runs
\* write_zdata once: it writes either one ZEOF header or one ZDATA header
\* followed by one window, ZCRCG subpackets closed by a single ZCRCW, of at
\* most SUBPACKET_PER_ACK subpackets.  Every other pass writes nothing, "OO",
\* a header alone, or the ZFILE header with the file-name subpacket.
DataOnlyOnRequest ==
    [][Len(r2s') < Len(r2s) =>
           Bind(read_window(swr'), LAMBDA w :
               IF sframe' \in {ZRPOS, ZACK} /\ stage # "Waiting"
               THEN /\ w.st = "ok"
                    /\ stage' = "Receiving"
                    /\ w.header.kind \in {ZDATA, ZEOF}
                    /\ w.header.kind = ZEOF => swr' = HeaderBytes(w.header)
                    /\ w.header.kind = ZDATA =>
                           /\ Len(w.subs) \in 2 .. SUBPACKET_PER_ACK
                           /\ \A i \in 1 .. Len(w.subs) - 1 : w.subs[i][1] = ZCRCG
                           /\ w.subs[Len(w.subs)][1] = ZCRCW
               ELSE \/ swr' \in {<<>>, OO}
                    \/ /\ w.st = "ok"
                       /\ w.header.kind \notin {ZDATA, ZEOF}
                       /\ \/ swr' = HeaderBytes(w.header)
                          \/ /\ w.header.kind = ZFILE
                             /\ sframe' = ZRINIT
                             /\ Len(w.subs) = 1)]_vars

\* write has answered a ZACK with a ZDATA header and a window
ZackAnsweredWithData ==
    /\ sframe = ZACK
    /\ read_window(swr).st = "ok"
    /\ read_window(swr).header.kind = ZDATA

\* C20: a pass of the loop of write that reads a ZRINIT goes on with the
\* loop; in Waiting it writes the ZFILE header with the file-name subpacket
\* and moves to Ready, in Ready it writes nothing and stays in Ready, in
\* Receiving it writes a ZFIN header and stays in Receiving.
ZrinitByStage ==
    [][(Len(r2s') < Len(r2s) /\ sframe' = ZRINIT) =>
           /\ spc' = "loop"
           /\ stage = "Waiting" =>
                  /\ stage' = "Ready"
                  /\ swr' = write_zfile(FILE_NAME, unwrap_or(size, 0))
           /\ stage = "Ready" => (stage' = "Ready" /\ swr' = <<>>)
           /\ stage = "Receiving" =>
                  (stage' = "Receiving" /\ swr' = HeaderBytes(ZFIN_HEADER))]_vars

\* write, in Receiving, has answered a ZRINIT with a ZFIN header
ZrinitAnsweredWithZfin ==
    /\ sframe = ZRINIT
    /\ stage = "Receiving"
    /\ swr = HeaderBytes(ZFIN_HEADER)

\* C21: a pass of the loop of write that parses, in stage Waiting, a frame of
\* any kind other than ZRINIT writes exactly a ZRQINIT header (so no ZFILE,
\* ZDATA, ZEOF, ZFIN or "OO"), stays in Waiting and goes on with the loop.
WaitingResendsZrqinit ==
    [][(/\ Len(r2s') < Len(r2s)
        /\ stage = "Waiting"
        /\ sframe' \in FRAMES \ {ZRINIT}) =>
           /\ stage' = "Waiting"
           /\ swr' = HeaderBytes(ZRQINIT_HEADER)
           /\ spc' = "loop"]_vars

\* write, in Waiting, has answered a ZFIN and later a ZRPOS with ZRQINIT
WaitingAnsweredZrpos ==
    /\ stage = "Waiting"
    /\ szfin
    /\ sframe = ZRPOS
    /\ swr = HeaderBytes(ZRQINIT_HEADER)

\* C22: a pass of the loop of write or of read that finds, after the
\* preamble, a frame that Header::read rejects (unknown encoding byte, CRC
\* mismatch, bad hex digit, unknown kind byte) writes exactly a ZNAK header,
\* leaves the stage, or (current_file, bytes_received) and the sink, as they
\* were, and goes on with the loop.
BadFrameAnswered ==
    [][/\ (spc = "loop" /\ Len(r2s') < Len(r2s) /\ head_frame(r2s).st = "bad") =>
              /\ swr' = HeaderBytes(ZNAK_HEADER)
              /\ stage' = stage
              /\ spc' = "loop"
       /\ (rpc = "loop" /\ Len(s2r') < Len(s2r) /\ head_frame(s2r).st = "bad") =>
              /\ rwr' = HeaderBytes(ZNAK_HEADER)
              /\ current_file' = current_file
              /\ bytes_received' = bytes_received
              /\ sink' = sink
              /\ rpc' = "loop"]_vars

\* read, with a file open and bytes received, has answered a frame with ZNAK
BadFrameAnsweredWithFileOpen ==
    /\ rpc = "loop"
    /\ current_file # None
    /\ bytes_received = U32(2)
    /\ rwr = HeaderBytes(ZNAK_HEADER)

\* C23: a pass of the loop of read that parses, with a file open, a ZDATA
\* frame whose count is not bytes_received writes exactly a ZRPOS header with
\* count bytes_received and leaves the sink and (current_file,
\* bytes_received) as they were; read_zdata is entered only from a ZDATA
\* frame whose count is bytes_received, with a file open, and the sink takes
\* bytes only inside read_zdata.
ZdataOffsetChecked ==
    [][Bind(head_frame(s2r), LAMBDA hf :
           /\ (/\ rpc = "loop"
               /\ Len(s2r') < Len(s2r)
               /\ current_file # None
               /\ hf.st = "ok"
               /\ hf.v.kind = ZDATA
               /\ count(hf.v) # bytes_received) =>
                  /\ rwr' = HeaderBytes(with_count(ZRPOS_HEADER, bytes_received))
                  /\ sink' = sink
                  /\ current_file' = current_file
                  /\ bytes_received' = bytes_received
                  /\ rpc' = "loop"
           /\ (rpc # "zdata" /\ rpc' = "zdata") =>
                  /\ current_file # None
                  /\ hf.st = "ok"
                  /\ hf.v.kind = ZDATA
                  /\ count(hf.v) = bytes_received
           /\ sink' # sink => rpc = "zdata")]_vars

\* read, at offset 2, has answered a ZDATA frame for another offset with
\* ZRPOS 2 and has not yet looked at the subpacket behind the frame
ZdataRefusedAtOffset ==
    /\ rpc = "loop"
    /\ bytes_received = U32(2)
    /\ rwr = HeaderBytes(with_count(ZRPOS_HEADER, U32(2)))
    /\ s2r = SubpacketBytes(ZBIN32, ZCRCW, <<65, 66>>)

\* C24: a pass of the loop of read_zdata that reads a subpacket with a good
\* CRC, and whose write to the sink succeeds, appends the payload to the sink
\* and then: on ZCRCW writes ZACK and returns to the loop of read; on ZCRCE
\* returns without writing; on ZCRCQ writes ZACK and stays in read_zdata; on
\* ZCRCG stays without writing.  read writes a ZACK header only in such a
\* pass, for ZCRCW or ZCRCQ, and its count is the new bytes_received.
DataTerminators ==
    [][Len(s2r') < Len(s2r) =>
           /\ (rpc = "zdata" /\ rpc' \notin {"err", "panic"}) =>
                  Bind(read_subpacket(s2r, FALSE, renc), LAMBDA sp :
                      sp.st = "ok" =>
                          /\ sink' = sink \o sp.v[2]
                          /\ rwr' = IF sp.v[1] \in {ZCRCW, ZCRCQ}
                                    THEN HeaderBytes(with_count(ZACK_HEADER,
                                                                bytes_received'))
                                    ELSE <<>>
                          /\ rpc' = IF sp.v[1] \in {ZCRCW, ZCRCE}
                                    THEN "loop" ELSE "zdata")
           /\ Bind(head_frame(rwr'), LAMBDA hf :
                  (hf.st = "ok" /\ hf.v.kind = ZACK) =>
                      /\ rpc = "zdata"
                      /\ count(hf.v) = bytes_received'
                      /\ read_subpacket(s2r, FALSE, renc).st = "ok"
                      /\ read_subpacket(s2r, FALSE, renc).v[1] \in {ZCRCW, ZCRCQ})]_vars

\* read_zdata has written ZACK for a ZCRCQ subpacket and reads on
ZcrcqAcknowledged ==
    /\ rpc = "zdata"
    /\ sink # <<>>
    /\ rwr = HeaderBytes(with_count(ZACK_HEADER, bytes_received))

\* C25: a pass of the loop of read_zdata that reads a subpacket with a wrong
\* CRC writes exactly a ZRPOS header with count bytes_received, leaves the
\* sink and bytes_received as they were, and returns to the loop of read.
DataCrcFailure ==
    [][(rpc = "zdata" /\ Len(s2r') < Len(s2r)) =>
           (read_subpacket(s2r, FALSE, renc).st = "err" =>
                /\ rwr' = HeaderBytes(with_count(ZRPOS_HEADER, bytes_received))
                /\ sink' = sink
                /\ bytes_received' = bytes_received
                /\ current_file' = current_file
                /\ rpc' = "loop")]_vars

\* read_zdata, entered at offset 2 from a ZBIN32 ZDATA frame, has answered
\* the subpacket behind it, whose CRC is wrong, with ZRPOS 2
CrcFailureAnswered ==
    /\ rpc = "loop"
    /\ renc = ZBIN32
    /\ sink = <<>>
    /\ s2r = <<>>
    /\ bytes_received = U32(2)
    /\ rwr = HeaderBytes(with_count(ZRPOS_HEADER, U32(2)))

\* C26: a pass of the loop of read that parses a ZEOF frame with a file open
\* writes nothing when the count of the frame is not bytes_received and
\* exactly a ZRINIT header when it is; either way the sink and
\* (current_file, bytes_received) stay as they were and read goes on with
\* its loop.
ZeofChecked ==
    [][(rpc = "loop" /\ Len(s2r') < Len(s2r) /\ current_file # None) =>
           Bind(head_frame(s2r), LAMBDA hf :
               (hf.st = "ok" /\ hf.v.kind = ZEOF) =>
                   /\ rwr' = IF count(hf.v) = bytes_received
                             THEN HeaderBytes(ZRINIT_HEADER) ELSE <<>>
                   /\ sink' = sink
                   /\ current_file' = current_file
                   /\ bytes_received' = bytes_received
                   /\ rpc' = "loop")]_vars

\* read, with a file open at offset 2, has answered ZEOF 2 with ZRINIT
ZeofAnswered ==
    /\ rpc = "loop"
    /\ current_file # None
    /\ bytes_received = U32(2)
    /\ rwr = HeaderBytes(ZRINIT_HEADER)

\* C27: read returns Ok only from the pass of its loop that parses a ZFIN
\* frame while a file is open, and that pass writes exactly a ZFIN header,
\* after which read writes nothing more; a ZFIN parsed while no file is open
\* leaves read in its loop.
OkOnlyOnZfinWithFile ==
    [][/\ (rpc # "done" /\ rpc' = "done") =>
              /\ rpc = "loop"
              /\ current_file # None
              /\ head_frame(s2r).st = "ok"
              /\ head_frame(s2r).v.kind = ZFIN
              /\ rwr' = HeaderBytes(ZFIN_HEADER)
       /\ (rpc = "loop" /\ Len(s2r') < Len(s2r)) =>
              Bind(head_frame(s2r), LAMBDA hf :
                  (hf.st = "ok" /\ hf.v.kind = ZFIN) =>
                      rpc' = IF current_file # None THEN "done" ELSE "loop")
       /\ rpc = "done" => (rpc' = "done" /\ rwr' = rwr /\ s2r' = s2r)]_vars

\* read has returned Ok after a ZFIN, with a file open and a byte received
ReadReturnedOk ==
    /\ rpc = "done"
    /\ current_file # None
    /\ bytes_received = U32(1)
    /\ rwr = HeaderBytes(ZFIN_HEADER)

\* C28: a pass of the loop of read that parses, with no file open, a frame
\* of any kind other than ZFILE writes exactly a ZHEX ZRINIT header whose
\* flags are 0, 0, 0 and CANCRY | CANOVIO | CANFC32 (buffer size 0), leaves
\* the sink as it was and (current_file, bytes_received) at (None, 0), and
\* goes on with the loop.
NoFileAnswersZrinit ==
    [][(rpc = "loop" /\ Len(s2r') < Len(s2r) /\ current_file = None) =>
           Bind(head_frame(s2r), LAMBDA hf :
               (hf.st = "ok" /\ hf.v.kind # ZFILE) =>
                   /\ rwr' = HeaderBytes(Header(ZHEX, ZRINIT, <<0, 0, 0, 8 + 2 + 32>>))
                   /\ sink' = sink
                   /\ bytes_received = U32(0)
                   /\ current_file' = None
                   /\ bytes_received' = U32(0)
                   /\ rpc' = "loop")]_vars

\* read, with no file open, has answered a ZFIN frame with ZRINIT
ZfinAnsweredWithoutFile ==
    /\ rpc = "loop"
    /\ current_file = None
    /\ rframe = ZFIN
    /\ rwr = HeaderBytes(ZRINIT_HEADER)

\* C29: a pass of the loop of read that parses, with a file open, a frame
\* of any kind other than ZFILE, ZDATA, ZEOF and ZFIN writes nothing, leaves
\* the sink and (current_file, bytes_received) as they were, and goes on
\* with the loop.
OtherFramesIgnored ==
    [][(rpc = "loop" /\ Len(s2r') < Len(s2r) /\ current_file # None) =>
           Bind(head_frame(s2r), LAMBDA hf :
               (hf.st = "ok" /\ hf.v.kind \notin {ZFILE, ZDATA, ZEOF, ZFIN}) =>
                   /\ rwr' = <<>>
                   /\ r2s' = r2s
                   /\ sink' = sink
                   /\ current_file' = current_file
                   /\ bytes_received' = bytes_received
                   /\ rpc' = "loop")]_vars

\* read, with a file open and a byte received, has passed over a ZRQINIT
\* frame
ZrqinitIgnored ==
    /\ rpc = "loop"
    /\ current_file # None
    /\ bytes_received = U32(1)
    /\ rframe = ZRQINIT
    /\ rwr = <<>>

\* C30: after a pass of the loop of read that parses a ZFILE frame,
\* bytes_received is 0, also when a file was open and bytes had been
\* received.
ZfileResetsOffset ==
    [][(rpc = "loop" /\ Len(s2r') < Len(s2r) /\ rframe' = ZFILE) =>
           bytes_received' = U32(0)]_vars

\* C31 as stated: after the encoding byte Header::read takes 7 escaped bytes
\* for ZBIN, 9 for ZBIN32 and 17 for ZHEX, an escaped byte being one literal
\* byte or a ZDLE pair.
HeaderBudgetAsStated ==
    (cout # None /\ cin.op = "header" /\ cout[1].st \in {"ok", "err"}) =>
        Bind(HeaderBytes(Header(cin.encoding, cin.kind, cin.data)), LAMBDA w :
            escaped_units(SubSeq(w, IF cin.encoding = ZHEX THEN 5 ELSE 4,
                                 Len(w) - Len(cout[1].rest)))
                = IF cin.encoding = ZBIN THEN 7
                  ELSE IF cin.encoding = ZBIN32 THEN 9
                  ELSE 17)

\* C31: after the encoding byte Header::read takes 7 escaped bytes for ZBIN,
\* 9 for ZBIN32 and 14 for ZHEX, an escaped byte being one literal byte or a
\* ZDLE pair; what follows them stays in the port.
HeaderBudget ==
    (cout # None /\ cin.op = "header" /\ cout[1].st \in {"ok", "err"}) =>
        Bind(HeaderBytes(Header(cin.encoding, cin.kind, cin.data)), LAMBDA w :
            escaped_units(SubSeq(w, IF cin.encoding = ZHEX THEN 5 ELSE 4,
                                 Len(w) - Len(cout[1].rest)))
                = IF cin.encoding = ZBIN THEN 7
                  ELSE IF cin.encoding = ZBIN32 THEN 9
                  ELSE 14)

\* A ZHEX header has been read and its CR LF XON is left in the port
HexTrailerLeft ==
    /\ cout # None
    /\ cin.op = "header"
    /\ cin.encoding = ZHEX
    /\ cin.kind = ZRINIT
    /\ cout[1].st = "ok"
    /\ cout[1].rest = <<13, 10, XON>>

\* C32: in a call of read that started from (None, 0), whatever the peer
\* sends, bytes_received is 0 whenever no file is open, and read does not
\* panic: neither assert_eq!(state.1, 0) fails.
NoFileMeansOffsetZero ==
    entry = U32(0) =>
        /\ current_file = None => bytes_received = U32(0)
        /\ rpc # "panic"

\* read, started from (None, 0), has passed the assertion of the ZFILE arm
\* and has no file open, the file-name subpacket having failed its CRC
ZfileRefusedFromStart ==
    /\ entry = U32(0)
    /\ rpc = "loop"
    /\ rframe = ZFILE
    /\ current_file = None
    /\ rwr = HeaderBytes(ZNAK_HEADER)

\* C33: a pass of the loop of read that parses a ZFILE frame while a file is
\* open and bytes_received is 0, and whose file-name subpacket fails its
\* CRC, writes a ZNAK header and leaves (current_file, bytes_received) as
\* they were.
ZfileFailureKeepsFile ==
    [][(/\ rpc = "loop"
        /\ Len(s2r') < Len(s2r)
        /\ current_file # None
        /\ bytes_received = U32(0)
        /\ rframe' = ZFILE) =>
           Bind(head_frame(s2r), LAMBDA hf :
               read_subpacket(hf.rest, FALSE, hf.v.encoding).st = "err" =>
                   /\ rwr' = HeaderBytes(ZNAK_HEADER)
                   /\ current_file' = current_file
                   /\ bytes_received' = bytes_received)]_vars

\* C34: in a session of write against read started from (None, 0), write
\* writes a ZFIN header only after it has written a ZEOF header whose count
\* is the length of the file, read writes a ZFIN header only when
\* bytes_received is the length of the file, and neither writes a ZNAK
\* header.
SessionOrder ==
    [][/\ swr' = HeaderBytes(ZFIN_HEADER) => szeof'
       /\ rwr' = HeaderBytes(ZFIN_HEADER) =>
              bytes_received' = U32(Len(file))
       /\ swr' # HeaderBytes(ZNAK_HEADER)
       /\ rwr' # HeaderBytes(ZNAK_HEADER)]_vars

\* Both endpoints have written their ZFIN for a file of two full windows and
\* one byte more
BothWroteZfin ==
    /\ szeof
    /\ szfin
    /\ rwr = HeaderBytes(ZFIN_HEADER)
    /\ bytes_received = U32(MaxFileLen)
    /\ Len(file) = MaxFileLen

====
